---- MODULE Spec2Model ----
(***************************************************************************)
(* Live-event engagement engine of crowd_backend: the request handlers of  *)
(* the live-engagement routes (start and end of the event, poll votes,     *)
(* Q&A questions, upvotes and answers, icebreaker responses, photo shares  *)
(* and likes, chat messages) and the socket handler's room membership and  *)
(* metrics (join_event, leave_event, disconnect, typing indicators,        *)
(* track_engagement, the metrics tick), over the Mongoose documents of the *)
(* LiveEvent models, with the delivery of room broadcasts to the clients.  *)
(*                                                                         *)
(* A handler is an async function: everything between two awaits runs     *)
(* without interruption on the event loop, and other handlers run while    *)
(* one waits for the store.  Each handler is therefore cut at its awaits   *)
(* on the store.  A findById and the synchronous checks and mutations of   *)
(* the in-memory document that follow it are one step (they depend on the  *)
(* snapshot only); the save is a second step.                              *)
(*                                                                         *)
(* document.save() does not write the document back whole.  Mongoose sends *)
(* an update with one operator per modified path:                          *)
(*   array.push(x)              ->  $push  on the array's path             *)
(*   field = value, field++/--  ->  $set   of the value the handler holds  *)
(*   array = other array        ->  $set   of the whole array              *)
(* and it versions the document (__v) only where array positions are at    *)
(* stake: a $push on a top-level array increments __v without testing it,  *)
(* while a $set of a whole array, or any operator on a path that runs      *)
(* through an array index (options.0.votes, options.0.voteCount), adds     *)
(* __v to the update's filter and increments it; an update whose filter    *)
(* matches no document makes save() throw VersionError, which the          *)
(* handlers answer with status 500.  The schemas set neither versionKey    *)
(* nor optimisticConcurrency, so these defaults apply.                     *)
(***************************************************************************)
EXTENDS Integers, Sequences, FiniteSets, TLC

\* ---------------------------------------------------------------- bounds
NumUsers == 2
MaxReqs == 3
MaxVoteReqs == 2
NumOptions == 2
NumConns == 2
MaxHandlers == 2

Users == 1..NumUsers
Reqs == 1..MaxReqs
VoteReqs == 1..MaxVoteReqs
Conns == 1..NumConns
Handlers == 1..MaxHandlers

NoUser == 0
NoConn == 0
NoExpiry == -1
NoDate == -1
NoDoc == [none |-> TRUE]

\* the two events of the Event collection and their organizers: the rooms,
\* the LiveEvent, the poll, the question, the icebreaker and the photos of
\* this model belong to EventA
EventA == "A"
EventB == "B"
Events == {EventA, EventB}
organizer(e) == IF e = EventA THEN 1 ELSE 2

\* Event.findOne({_id: eventId, organizer: req.user.id}) finds the event
IsOrganizer(u, e) == u = organizer(e)

VARIABLES
  now,        \* the clock read by new Date()
  poll,       \* the stored LivePoll document
  vreq,       \* vote requests: position, input, in-memory document, answer
  qa,         \* the stored LiveQA document
  ureq,       \* upvote requests
  ice,        \* the stored Icebreaker document
  ireq,       \* respond requests
  bcast,      \* what io.to(room).emit has sent, in order
  connected,  \* the sockets that are open
  room,       \* socket.io room event_<eventId>: the connections in it
  eventIdSet, \* the sockets whose socket.eventId has been set
  liveEvent,  \* the stored LiveEvent document
  jreq,       \* one socket handler per connection: position and locals
  replies,    \* what socket.emit has sent to single connections
  photos,     \* the stored LivePhoto documents, in the order of their creation
  preq,       \* photo share and like requests
  lreq,       \* start and end requests
  duplicates, \* the further LiveEvent documents stored for the event
  areq,       \* answer requests
  otherRoom,  \* socket.io room of a second event: the connections in it
  eventIdOther, \* the sockets whose socket.eventId names the second event
  liveEventOther, \* the stored LiveEvent document of the second event
  seen,       \* per socket, the broadcasts its client has received, in order
  questions,  \* the LiveQA documents created by POST /:eventId/qa/questions
  chats,      \* the stored LiveChat documents
  creq        \* ask and chat requests

vars == <<now, poll, vreq, qa, ureq, ice, ireq, bcast, connected, room, eventIdSet,
          liveEvent, jreq, replies, photos, preq, lreq, duplicates, areq,
          otherRoom, eventIdOther, liveEventOther, seen, questions, chats, creq>>

pollVars == <<poll, vreq>>
qaVars == <<qa, ureq>>
iceVars == <<ice, ireq>>
roomVars == <<connected, room, eventIdSet, liveEvent, jreq, replies>>
photoVars == <<photos, preq>>
lifeVars == <<lreq, duplicates>>
otherVars == <<otherRoom, eventIdOther, liveEventOther>>
wireVars == <<seen>>
postVars == <<questions, chats, creq>>

\* ---------------------------------------------------------------- helpers
RECURSIVE CountIn(_, _)
CountIn(s, x) ==
  IF s = <<>> THEN 0 ELSE (IF Head(s) = x THEN 1 ELSE 0) + CountIn(Tail(s), x)

Range(s) == {s[i] : i \in DOMAIN s}

SeqsUpTo(S, n) == UNION {[1..k -> S] : k \in 0..n}

\* Array.prototype.filter(x => x !== u)
RECURSIVE Without(_, _)
Without(s, u) ==
  IF s = <<>> THEN <<>>
  ELSE IF Head(s) = u THEN Without(Tail(s), u)
       ELSE <<Head(s)>> \o Without(Tail(s), u)

\* n copies of x, as the $each list of one $push
Copies(x, n) == [i \in 1..n |-> x]

\* Math.floor in the place of Math.round
RoundPctDown(a, b) == (100 * a) \div b

\* Math.round(a / b * 100) for a >= 0, b > 0: halves round up.  The double
\* a / b * 100 rounds as the exact quotient does for every b below 40 (at
\* 23 / 40 the double lies just under 57.5), which covers the totals here.
RoundPct(a, b) == (200 * a + b) \div (2 * b)

\* ================================================================ polls
\* new LivePoll({options, allowMultiple, expiresAt}): counters and vote
\* lists take the schema defaults
NewPoll(allowMultiple, expiresAt) ==
  [options |-> [i \in 1..NumOptions |-> [votes |-> <<>>, voteCount |-> 0]],
   totalVotes |-> 0, isActive |-> TRUE, allowMultiple |-> allowMultiple,
   expiresAt |-> expiresAt, v |-> 0]

\* optionIndexes as sent by the client: an empty list, one index, or two
\* (two different ones or the same one twice).  Option i of the code is
\* i + 1 here, so 0 and NumOptions + 1 are the out-of-range indexes -1 and
\* length.  The handler treats each index on its own, so pairs are taken in
\* ascending order, and the out-of-range pairs are those that end out of
\* range.
IdxInputs ==
  LET Sent == 0..(NumOptions + 1)
      Pairs == {q \in (1..NumOptions) \X (1..(NumOptions + 1)) : q[1] <= q[2]}
  IN {<<>>} \cup {<<i>> : i \in Sent} \cup {<<q[1], q[2]>> : q \in Pairs}

\* hasVoted looking at the first option only
hasVotedFirstOption(p, u) == u \in Range(p.options[1].votes)

\* poll.options.some(option => option.votes.some(vote => vote.userId == user))
hasVoted(p, u) == \E i \in DOMAIN p.options : u \in Range(p.options[i].votes)

\* !poll.isActive || (poll.expiresAt && poll.expiresAt < new Date())
PollClosed(p) == ~p.isActive \/ (p.expiresAt # NoExpiry /\ p.expiresAt < now)

\* optionIndexes.some(index => index < 0 || index > maxIndex)
InvalidIndex(p, idx) == \E k \in DOMAIN idx : idx[k] < 1 \/ idx[k] > Len(p.options)

\* AddVotes without its poll.totalVotes++
RECURSIVE AddVotesNoTotal(_, _, _)
AddVotesNoTotal(p, u, idx) ==
  IF idx = <<>> THEN p
  ELSE LET i == Head(idx)
           q == [p EXCEPT !.options[i].votes = Append(@, u),
                          !.options[i].voteCount = @ + 1]
       IN AddVotesNoTotal(q, u, Tail(idx))

\* optionIndexes.forEach(index => { push; voteCount++; totalVotes++ })
RECURSIVE AddVotes(_, _, _)
AddVotes(p, u, idx) ==
  IF idx = <<>> THEN p
  ELSE LET i == Head(idx)
           q == [p EXCEPT !.options[i].votes = Append(@, u),
                          !.options[i].voteCount = @ + 1,
                          !.totalVotes = @ + 1]
       IN AddVotes(q, u, Tail(idx))

\* poll.save() with an update whose filter does not test __v
PollVersionIgnored(stored, doc) == TRUE

\* the filter of the update sent by poll.save(): the paths options.<i>.votes
\* and options.<i>.voteCount run through an array index, so the document's
\* __v must still be the one that was read
PollVersionMatches(stored, doc) == stored.v = doc.v

\* the update of poll.save() applied to the stored document: $push of the
\* new votes on each chosen option, $set of that option's voteCount and of
\* totalVotes to the handler's values, $inc of __v
PollApplySave(stored, doc, u, idx) ==
  [stored EXCEPT
     !.options = [i \in DOMAIN stored.options |->
        IF i \in Range(idx)
        THEN [votes |-> stored.options[i].votes \o Copies(u, CountIn(idx, i)),
              voteCount |-> doc.options[i].voteCount]
        ELSE stored.options[i]],
     !.totalVotes = doc.totalVotes,
     !.v = @ + 1]

\* pollResults and the poll_vote payload
PollResults(doc) ==
  [i \in DOMAIN doc.options |->
     [voteCount |-> doc.options[i].voteCount,
      percentage |-> IF doc.totalVotes > 0
                     THEN RoundPct(doc.options[i].voteCount, doc.totalVotes)
                     ELSE 0]]

PollVoteMsg(doc) ==
  [type |-> "poll_vote", options |-> PollResults(doc), totalVotes |-> doc.totalVotes]

IdleVote == [pc |-> "idle", user |-> NoUser, idx |-> <<>>, doc |-> NoDoc, result |-> "none"]

\* a request that is answered with the AlreadyVoted conflict where it
\* should be answered with success
VoteAnsweredConflict(u, result) ==
  [pc |-> "done", user |-> u, idx |-> <<>>, doc |-> NoDoc,
   result |-> IF result = "200 vote recorded" THEN "400 already voted" ELSE result]

\* a request that has been answered
VoteAnswered(u, result) ==
  [pc |-> "done", user |-> u, idx |-> <<>>, doc |-> NoDoc, result |-> result]

\* requests take the slots in the order in which they arrive
NextSlot(reqs, r) ==
  reqs[r].pc = "idle" /\ (IF r = 1 THEN TRUE ELSE reqs[r - 1].pc # "idle")

\* POST /:eventId/polls/:pollId/vote up to its await poll.save()
VoteRequest(r, u, found, idx) ==
  /\ NextSlot(vreq, r)
  /\ vreq' = [vreq EXCEPT ![r] =
       IF idx = <<>> THEN VoteAnswered(u, "400 optionIndexes required")
       ELSE IF ~found THEN VoteAnswered(u, "404 poll not found")
       ELSE IF PollClosed(poll) THEN VoteAnswered(u, "400 poll not active")
       ELSE IF hasVoted(poll, u) THEN VoteAnswered(u, "400 already voted")
       ELSE IF InvalidIndex(poll, idx) THEN VoteAnswered(u, "400 invalid index")
       ELSE [pc |-> "save", user |-> u, idx |-> idx,
             doc |-> AddVotes(poll, u, idx), result |-> "none"]]
  /\ UNCHANGED <<now, wireVars, postVars, poll, bcast, qaVars, iceVars, roomVars, photoVars, lifeVars, areq, otherVars>>

\* await poll.save() and what follows it: the poll_vote broadcast and the
\* 200 answer, or the catch block's 500 when save() throws VersionError
VoteSave(r) ==
  /\ vreq[r].pc = "save"
  /\ IF PollVersionMatches(poll, vreq[r].doc)
     THEN /\ poll' = PollApplySave(poll, vreq[r].doc, vreq[r].user, vreq[r].idx)
          /\ bcast' = Append(bcast, PollVoteMsg(vreq[r].doc))
          /\ vreq' = [vreq EXCEPT ![r] =
               VoteAnswered(@.user, "200 vote recorded")]
     ELSE /\ vreq' = [vreq EXCEPT ![r] = VoteAnswered(@.user, "500 failed: VersionError")]
          /\ UNCHANGED <<poll, bcast>>
  /\ UNCHANGED <<now, wireVars, postVars, qaVars, iceVars, roomVars, photoVars, lifeVars, areq, otherVars>>

\* await poll.save() rejects because the store is unavailable: catch, 500
VoteSaveFails(r) ==
  /\ vreq[r].pc = "save"
  /\ vreq' = [vreq EXCEPT ![r] = VoteAnswered(@.user, "500 failed")]
  /\ UNCHANGED <<now, wireVars, postVars, poll, bcast, qaVars, iceVars, roomVars, photoVars, lifeVars, areq, otherVars>>

\* time passes, up to the moment the poll's expiry lies in the past
Tick ==
  /\ now <= poll.expiresAt
  /\ now' = now + 1
  /\ UNCHANGED <<wireVars, postVars, poll, vreq, bcast, qaVars, iceVars, roomVars, photoVars, lifeVars, areq, otherVars>>

\* ================================================================ Q&A
\* question.answer before the question is answered
NoAnswer == [text |-> "", answeredBy |-> NoUser]

\* new LiveQA({question, askedBy}): no upvotes, upvoteCount 0, no answer,
\* status pending
NewQuestion ==
  [upvotes |-> <<>>, upvoteCount |-> 0, answer |-> NoAnswer, status |-> "pending",
   v |-> 0]

\* question.upvotes.includes(req.user.id)
hasUpvoted(q, u) == u \in Range(q.upvotes)

\* the in-memory question after the handler's branch: filter and
\* upvoteCount-- when the user is in upvotes, push and upvoteCount++ otherwise
ToggleUpvote(q, u) ==
  IF hasUpvoted(q, u)
  THEN [q EXCEPT !.upvotes = Without(@, u), !.upvoteCount = @ - 1]
  ELSE [q EXCEPT !.upvotes = Append(@, u), !.upvoteCount = @ + 1]

\* the filter of the update sent by question.save(): assigning a new array
\* to upvotes makes the update a $set of the whole array, which tests __v;
\* a push makes it a $push on the top-level path upvotes, which does not
UpvoteVersionMatches(stored, doc, removing) == removing => stored.v = doc.v

\* question.save() writing the handler's whole in-memory document back
UpvoteApplySaveWhole(stored, doc, u, removing) == [doc EXCEPT !.v = @ + 1]

\* the update of question.save() applied to the stored document
UpvoteApplySave(stored, doc, u, removing) ==
  [stored EXCEPT !.upvotes = IF removing THEN doc.upvotes ELSE Append(@, u),
                 !.upvoteCount = doc.upvoteCount,
                 !.v = @ + 1]

UpvoteMsg(doc, removing) ==
  [type |-> "qa_upvote", upvoteCount |-> doc.upvoteCount, userUpvoted |-> ~removing]

IdleUpvote ==
  [pc |-> "idle", user |-> NoUser, doc |-> NoDoc, removing |-> FALSE, result |-> "none"]

UpvoteAnswered(u, result) ==
  [pc |-> "done", user |-> u, doc |-> NoDoc, removing |-> FALSE, result |-> result]

\* POST /:eventId/qa/questions/:questionId/upvote up to its await
\* question.save()
UpvoteRequest(r, u, found) ==
  /\ NextSlot(ureq, r)
  /\ ureq' = [ureq EXCEPT ![r] =
       IF ~found THEN UpvoteAnswered(u, "404 question not found")
       ELSE [pc |-> "save", user |-> u, doc |-> ToggleUpvote(qa, u),
             removing |-> hasUpvoted(qa, u), result |-> "none"]]
  /\ UNCHANGED <<now, wireVars, postVars, qa, bcast, pollVars, iceVars, roomVars, photoVars, lifeVars, areq, otherVars>>

\* await question.save(), then the qa_upvote broadcast and the 200 answer;
\* VersionError goes to the catch block
UpvoteSave(r) ==
  /\ ureq[r].pc = "save"
  /\ IF UpvoteVersionMatches(qa, ureq[r].doc, ureq[r].removing)
     THEN /\ qa' = UpvoteApplySave(qa, ureq[r].doc, ureq[r].user, ureq[r].removing)
          /\ bcast' = Append(bcast, UpvoteMsg(ureq[r].doc, ureq[r].removing))
          /\ ureq' = [ureq EXCEPT ![r] =
               UpvoteAnswered(@.user, IF @.removing THEN "200 upvote removed"
                                      ELSE "200 question upvoted")]
     ELSE /\ ureq' = [ureq EXCEPT ![r] = UpvoteAnswered(@.user, "500 failed: VersionError")]
          /\ UNCHANGED <<qa, bcast>>
  /\ UNCHANGED <<now, wireVars, postVars, pollVars, iceVars, roomVars, photoVars, lifeVars, areq, otherVars>>

\* await question.save() rejects because the store is unavailable
UpvoteSaveFails(r) ==
  /\ ureq[r].pc = "save"
  /\ ureq' = [ureq EXCEPT ![r] = UpvoteAnswered(@.user, "500 failed")]
  /\ UNCHANGED <<now, wireVars, postVars, qa, bcast, pollVars, iceVars, roomVars, photoVars, lifeVars, areq, otherVars>>

\* ================================================================ icebreakers
\* new Icebreaker({question}): no responses, responseCount 0
NewIcebreaker == [responses |-> <<>>, responseCount |-> 0, isActive |-> TRUE, v |-> 0]

\* req.body.response: absent, blank, or a text
ResponseInputs == {"", " ", "hi"}

\* String.prototype.trim
Trim(text) == IF text = " " THEN "" ELSE text

\* icebreaker.responses.find(r => r.userId.toString() === req.user.id)
existingResponse(ib, u) == \E k \in DOMAIN ib.responses : ib.responses[k].userId = u

\* responses.push(responseData); responseCount++
AddResponse(ib, u, text) ==
  [ib EXCEPT !.responses = Append(@, [userId |-> u, response |-> Trim(text)]),
             !.responseCount = @ + 1]

\* the update of icebreaker.save() applied to the stored document: $push
\* on the top-level path responses, $set of responseCount to the handler's
\* value, $inc of __v; its filter does not test __v
RespondApplySave(stored, doc) ==
  [stored EXCEPT !.responses = Append(@, doc.responses[Len(doc.responses)]),
                 !.responseCount = doc.responseCount,
                 !.v = @ + 1]

ResponseMsg(doc) ==
  [type |-> "icebreaker_response",
   user |-> doc.responses[Len(doc.responses)].userId,
   totalResponses |-> doc.responseCount]

IdleRespond == [pc |-> "idle", user |-> NoUser, doc |-> NoDoc, result |-> "none"]

RespondAnswered(u, result) == [pc |-> "done", user |-> u, doc |-> NoDoc, result |-> result]

\* POST /:eventId/icebreakers/:icebreakerId/respond up to its await
\* icebreaker.save()
RespondRequest(r, u, found, text) ==
  /\ NextSlot(ireq, r)
  /\ ireq' = [ireq EXCEPT ![r] =
       IF Trim(text) = "" THEN RespondAnswered(u, "400 response required")
       ELSE IF ~found THEN RespondAnswered(u, "404 icebreaker not found")
       ELSE IF existingResponse(ice, u) THEN RespondAnswered(u, "400 already responded")
       ELSE [pc |-> "save", user |-> u, doc |-> AddResponse(ice, u, text),
             result |-> "none"]]
  /\ UNCHANGED <<now, wireVars, postVars, ice, bcast, pollVars, qaVars, roomVars, photoVars, lifeVars, areq, otherVars>>

\* await icebreaker.save() and await icebreaker.populate(), then the
\* icebreaker_response broadcast and the 201 answer
RespondSave(r) ==
  /\ ireq[r].pc = "save"
  /\ ice' = RespondApplySave(ice, ireq[r].doc)
  /\ bcast' = Append(bcast, ResponseMsg(ireq[r].doc))
  /\ ireq' = [ireq EXCEPT ![r] = RespondAnswered(@.user, "201 response added")]
  /\ UNCHANGED <<now, wireVars, postVars, pollVars, qaVars, roomVars, photoVars, lifeVars, areq, otherVars>>

\* await icebreaker.save() rejects because the store is unavailable
RespondSaveFails(r) ==
  /\ ireq[r].pc = "save"
  /\ ireq' = [ireq EXCEPT ![r] = RespondAnswered(@.user, "500 failed")]
  /\ UNCHANGED <<now, wireVars, postVars, ice, bcast, pollVars, qaVars, roomVars, photoVars, lifeVars, areq, otherVars>>

\* await icebreaker.save() resolves and await icebreaker.populate() rejects:
\* the response is stored, the catch block answers 500, nothing is broadcast
RespondPopulateFails(r) ==
  /\ ireq[r].pc = "save"
  /\ ice' = RespondApplySave(ice, ireq[r].doc)
  /\ ireq' = [ireq EXCEPT ![r] = RespondAnswered(@.user, "500 failed")]
  /\ UNCHANGED <<now, wireVars, postVars, bcast, pollVars, qaVars, roomVars, photoVars, lifeVars, areq, otherVars>>

\* ================================================================ rooms
\* the stored LiveEvent of the event: absent until the event is started
NoLiveEvent ==
  [status |-> "absent", activeUsers |-> 0, peakAttendance |-> 0, totalInteractions |-> 0,
   moderationRequired |-> TRUE, startedAt |-> NoDate, endedAt |-> NoDate]

\* the LiveEvent once started: status live, metrics at their defaults
StartedLiveEvent ==
  [status |-> "live", activeUsers |-> 0, peakAttendance |-> 0, totalInteractions |-> 0,
   moderationRequired |-> TRUE, startedAt |-> 0, endedAt |-> NoDate]

\* whether io.in(room).fetchSockets() rejects.  No adapter is configured, so
\* the sockets are those of this process: the in-process adapter collects
\* them when fetchSockets is called and does not reject.
FetchSocketsRejects == FALSE

\* getActiveUsersCount: the sockets of the room, counted, or 0 from the
\* catch block.  The promise of the in-process adapter settles before the
\* event loop takes the next packet, so the count is of the room as it is
\* when the caller resumes.
getActiveUsersCount(members) == IF FetchSocketsRejects THEN 0 ELSE Cardinality(members)

\* liveEvent && liveEvent.status === 'live'
IsLive(le) == le.status = "live"

\* the update of liveEvent.save(): a $set of each metrics path the handler
\* changed; the filter does not test __v
LiveEventApplySave(stored, h) ==
  [stored EXCEPT
     !.activeUsers = IF "activeUsers" \in h.dirty THEN h.activeUsers ELSE @,
     !.peakAttendance = IF "peakAttendance" \in h.dirty THEN h.peakAttendance ELSE @,
     !.totalInteractions = IF "totalInteractions" \in h.dirty
                           THEN h.totalInteractions ELSE @]

IdleHandler ==
  [pc |-> "idle", kind |-> "none", conn |-> NoConn, found |-> NoLiveEvent,
   activeUsers |-> 0, peakAttendance |-> 0, totalInteractions |-> 0, dirty |-> {},
   foundOther |-> NoLiveEvent, rest |-> <<>>]

HandlerDone(h) == [IdleHandler EXCEPT !.pc = "done", !.kind = h.kind, !.conn = h.conn]

Reply(c, type, activeUsers) == [to |-> c, type |-> type, activeUsers |-> activeUsers]

\* socket.emit reaches the client only while the socket is connected
SendTo(c, msg) == IF c \in connected THEN Append(replies, msg) ELSE replies

\* the joined_event reply reusing the count taken before liveEvent.save()
JoinedEventStaleCount(h) == h.activeUsers

\* the activeUsers of the joined_event reply: a second, fresh count
JoinedEventCount(h) == getActiveUsersCount(room)

\* socket.emit('joined_event', {eventId, message, activeUsers})
JoinedEvent(h) == Reply(h.conn, "joined_event", JoinedEventCount(h))

\* socket.join(room): the room's sockets afterwards
socketJoin(members, c) == members \cup {c}

\* a socket.leave that leaves the room as it is
socketLeaveLost(members, c) == members

\* socket.leave(room): the room's sockets afterwards
socketLeave(members, c) == members \ {c}

\* socket.on('join_event') up to await analytics.save()
JoinEvent(h, c, hasEventId) ==
  /\ NextSlot(jreq, h)
  /\ c \in connected
  /\ IF ~hasEventId
     THEN /\ replies' = SendTo(c, Reply(c, "error", 0))
          /\ jreq' = [jreq EXCEPT ![h] = HandlerDone([kind |-> "join", conn |-> c])]
          /\ UNCHANGED <<room, eventIdSet, eventIdOther>>
     ELSE /\ room' = socketJoin(room, c)
          /\ eventIdSet' = eventIdSet \cup {c}
          /\ eventIdOther' = eventIdOther \ {c}
          /\ jreq' = [jreq EXCEPT ![h] = [IdleHandler EXCEPT
               !.pc = "analytics", !.kind = "join", !.conn = c]]
          /\ UNCHANGED replies
  /\ UNCHANGED <<now, wireVars, postVars, connected, liveEvent, bcast, pollVars, qaVars, iceVars,
               photoVars, lifeVars, areq, otherRoom, liveEventOther>>

\* await analytics.save() resolves and LiveEvent.findOne reads the store
JoinAnalyticsSaved(h) ==
  /\ jreq[h].kind = "join" /\ jreq[h].pc = "analytics"
  /\ jreq' = [jreq EXCEPT ![h].pc = "find", ![h].found = liveEvent]
  /\ UNCHANGED <<now, wireVars, postVars, connected, room, eventIdSet, liveEvent, replies, bcast, pollVars, qaVars, iceVars,
               photoVars, lifeVars, areq, otherVars>>

\* await LiveEvent.findOne resolves.  Live: count, set the metrics, send
\* the save.  Otherwise the joined_event reply goes out at once.
JoinFound(h) ==
  /\ jreq[h].kind = "join" /\ jreq[h].pc = "find"
  /\ IF IsLive(jreq[h].found)
     THEN LET le == jreq[h].found
              activeUsers == getActiveUsersCount(room)
              peak == IF activeUsers > le.peakAttendance
                      THEN activeUsers ELSE le.peakAttendance
          IN /\ jreq' = [jreq EXCEPT ![h] = [@ EXCEPT
                  !.pc = "save", !.found = NoLiveEvent,
                  !.activeUsers = activeUsers, !.peakAttendance = peak,
                  !.dirty = (IF activeUsers # le.activeUsers
                             THEN {"activeUsers"} ELSE {})
                            \cup (IF peak # le.peakAttendance
                                  THEN {"peakAttendance"} ELSE {})]]
             /\ UNCHANGED replies
     ELSE /\ replies' = SendTo(jreq[h].conn, JoinedEvent(jreq[h]))
          /\ jreq' = [jreq EXCEPT ![h] = HandlerDone(@)]
  /\ UNCHANGED <<now, wireVars, postVars, connected, room, eventIdSet, liveEvent, bcast, pollVars, qaVars, iceVars,
               photoVars, lifeVars, areq, otherVars>>

\* await liveEvent.save() resolves: active_users_update to the room, then
\* the joined_event reply
JoinSaved(h) ==
  /\ jreq[h].kind = "join" /\ jreq[h].pc = "save"
  /\ liveEvent' = LiveEventApplySave(liveEvent, jreq[h])
  /\ bcast' = Append(bcast, [type |-> "active_users_update",
                             activeUsers |-> jreq[h].activeUsers,
                             peakAttendance |-> jreq[h].peakAttendance])
  /\ replies' = SendTo(jreq[h].conn, JoinedEvent(jreq[h]))
  /\ jreq' = [jreq EXCEPT ![h] = HandlerDone(@)]
  /\ UNCHANGED <<now, wireVars, postVars, connected, room, eventIdSet, pollVars, qaVars, iceVars,
               photoVars, lifeVars, areq, otherVars>>

\* an await of the join handler rejects (store unavailable): the catch
\* block sends the error reply
JoinFails(h) ==
  /\ jreq[h].kind = "join" /\ jreq[h].pc \in {"analytics", "find", "save"}
  /\ replies' = SendTo(jreq[h].conn, Reply(jreq[h].conn, "error", 0))
  /\ jreq' = [jreq EXCEPT ![h] = HandlerDone(@)]
  /\ UNCHANGED <<now, wireVars, postVars, connected, room, eventIdSet, liveEvent, bcast, pollVars, qaVars, iceVars,
               photoVars, lifeVars, areq, otherVars>>

\* socket.on('leave_event') up to await LiveEvent.findOne: the socket
\* leaves the room and the room is counted
LeaveEvent(h, c) ==
  /\ NextSlot(jreq, h)
  /\ c \in connected
  /\ room' = socketLeave(room, c)
  /\ jreq' = [jreq EXCEPT ![h] = [IdleHandler EXCEPT
       !.pc = "find", !.kind = "leave", !.conn = c,
       !.activeUsers = getActiveUsersCount(socketLeave(room, c))]]
  /\ UNCHANGED <<now, wireVars, postVars, connected, eventIdSet, liveEvent, replies, bcast, pollVars, qaVars, iceVars,
               photoVars, lifeVars, areq, otherVars>>

\* the socket closes: socket.io takes it out of its rooms, then runs
\* socket.on('disconnect') up to await LiveEvent.findOne.  The handler
\* does nothing unless the socket had joined an event, and it works on the
\* event named by socket.eventId, the one joined last.  (Its last step, the
\* leave_live_event analytics record, touches none of this state.)
Disconnect(h, c) ==
  /\ NextSlot(jreq, h)
  /\ c \in connected
  /\ connected' = connected \ {c}
  /\ room' = room \ {c}
  /\ otherRoom' = otherRoom \ {c}
  /\ jreq' = [jreq EXCEPT ![h] =
       IF c \in eventIdOther
       THEN [IdleHandler EXCEPT !.pc = "find", !.kind = "disconnectOther", !.conn = c,
                                !.activeUsers = getActiveUsersCount(otherRoom \ {c})]
       ELSE IF c \in eventIdSet
       THEN [IdleHandler EXCEPT !.pc = "find", !.kind = "disconnect", !.conn = c,
                                !.activeUsers = getActiveUsersCount(room \ {c})]
       ELSE HandlerDone([kind |-> "disconnect", conn |-> c])]
  /\ UNCHANGED <<now, wireVars, postVars, eventIdSet, eventIdOther, liveEvent, replies, bcast, pollVars,
                 qaVars, iceVars, photoVars, lifeVars, areq, liveEventOther>>

\* leave_event and disconnect: await LiveEvent.findOne resolves.  Live: set
\* activeUsers to the count taken before the read and send the save.
LeaveFound(h) ==
  /\ jreq[h].kind \in {"leave", "disconnect"} /\ jreq[h].pc = "find"
  /\ IF IsLive(liveEvent)
     THEN /\ jreq' = [jreq EXCEPT ![h] = [@ EXCEPT
               !.pc = "save",
               !.dirty = IF jreq[h].activeUsers # liveEvent.activeUsers
                         THEN {"activeUsers"} ELSE {}]]
          /\ UNCHANGED replies
     ELSE /\ replies' = IF jreq[h].kind = "leave"
                        THEN SendTo(jreq[h].conn, Reply(jreq[h].conn, "left_event", 0))
                        ELSE replies
          /\ jreq' = [jreq EXCEPT ![h] = HandlerDone(@)]
  /\ UNCHANGED <<now, wireVars, postVars, connected, room, eventIdSet, liveEvent, bcast, pollVars, qaVars, iceVars,
               photoVars, lifeVars, areq, otherVars>>

\* leave_event and disconnect: await liveEvent.save() resolves, then the
\* active_users_update broadcast and, for leave_event, the left_event reply
LeaveSaved(h) ==
  /\ jreq[h].kind \in {"leave", "disconnect"} /\ jreq[h].pc = "save"
  /\ liveEvent' = LiveEventApplySave(liveEvent, jreq[h])
  /\ bcast' = Append(bcast, [type |-> "active_users_update",
                             activeUsers |-> jreq[h].activeUsers,
                             peakAttendance |-> 0])
  /\ replies' = IF jreq[h].kind = "leave"
                THEN SendTo(jreq[h].conn, Reply(jreq[h].conn, "left_event", 0))
                ELSE replies
  /\ jreq' = [jreq EXCEPT ![h] = HandlerDone(@)]
  /\ UNCHANGED <<now, wireVars, postVars, connected, room, eventIdSet, pollVars, qaVars, iceVars,
               photoVars, lifeVars, areq, otherVars>>

\* an await of leave_event or disconnect rejects: the catch block sends the
\* error reply (leave_event) or only logs (disconnect)
LeaveFails(h) ==
  /\ jreq[h].kind \in {"leave", "disconnect"} /\ jreq[h].pc \in {"find", "save"}
  /\ replies' = IF jreq[h].kind = "leave"
                THEN SendTo(jreq[h].conn, Reply(jreq[h].conn, "error", 0))
                ELSE replies
  /\ jreq' = [jreq EXCEPT ![h] = HandlerDone(@)]
  /\ UNCHANGED <<now, wireVars, postVars, connected, room, eventIdSet, liveEvent, bcast, pollVars, qaVars, iceVars,
               photoVars, lifeVars, areq, otherVars>>

\* ---------------------------------------------------------------- metrics tick
\* the setInterval callback up to its await LiveEvent.find({status: 'live'}),
\* which reads the store
TickStart(h) ==
  /\ NextSlot(jreq, h)
  /\ jreq' = [jreq EXCEPT ![h] = [IdleHandler EXCEPT
       !.pc = "find", !.kind = "tick", !.found = liveEvent]]
  /\ UNCHANGED <<now, wireVars, postVars, connected, room, eventIdSet, liveEvent, replies, bcast, pollVars,
                 qaVars, iceVars, photoVars, lifeVars, areq, otherVars>>

\* a callback that returns once LiveEvent.find has resolved
TickFoundReturns(h) ==
  /\ jreq[h].kind = "tick" /\ jreq[h].pc = "find"
  /\ jreq' = [jreq EXCEPT ![h] = HandlerDone(@)]
  /\ UNCHANGED <<now, wireVars, postVars, connected, room, eventIdSet, liveEvent, replies, bcast, pollVars,
                 qaVars, iceVars, photoVars, lifeVars, areq, otherVars>>

\* await LiveEvent.find resolves: for the live event the room is counted;
\* a count that differs from the stored one is set, with the peak, and saved
TickFound(h) ==
  /\ jreq[h].kind = "tick" /\ jreq[h].pc = "find"
  /\ LET le == jreq[h].found
         activeUsers == getActiveUsersCount(room)
         peak == IF activeUsers > le.peakAttendance
                 THEN activeUsers ELSE le.peakAttendance
     IN jreq' = [jreq EXCEPT ![h] =
          IF IsLive(le) /\ activeUsers # le.activeUsers
          THEN [@ EXCEPT !.pc = "save", !.found = NoLiveEvent,
                         !.activeUsers = activeUsers, !.peakAttendance = peak,
                         !.dirty = {"activeUsers"}
                                   \cup (IF peak # le.peakAttendance
                                         THEN {"peakAttendance"} ELSE {})]
          ELSE HandlerDone(@)]
  /\ UNCHANGED <<now, wireVars, postVars, connected, room, eventIdSet, liveEvent, replies, bcast, pollVars,
                 qaVars, iceVars, photoVars, lifeVars, areq, otherVars>>

\* await liveEvent.save() resolves, then the metrics_update broadcast
TickSaved(h) ==
  /\ jreq[h].kind = "tick" /\ jreq[h].pc = "save"
  /\ liveEvent' = LiveEventApplySave(liveEvent, jreq[h])
  /\ bcast' = Append(bcast, [type |-> "metrics_update",
                             activeUsers |-> jreq[h].activeUsers,
                             peakAttendance |-> jreq[h].peakAttendance])
  /\ jreq' = [jreq EXCEPT ![h] = HandlerDone(@)]
  /\ UNCHANGED <<now, wireVars, postVars, connected, room, eventIdSet, replies, pollVars, qaVars, iceVars,
                 photoVars, lifeVars, areq, otherVars>>

\* an await of the callback rejects: the catch block logs
TickFails(h) ==
  /\ jreq[h].kind = "tick" /\ jreq[h].pc \in {"find", "save"}
  /\ jreq' = [jreq EXCEPT ![h] = HandlerDone(@)]
  /\ UNCHANGED <<now, wireVars, postVars, connected, room, eventIdSet, liveEvent, replies, bcast, pollVars,
                 qaVars, iceVars, photoVars, lifeVars, areq, otherVars>>

\* the interval has passed: setInterval calls the callback again, up to its
\* await LiveEvent.find
TickAgain(h) ==
  /\ jreq[h].kind = "tick" /\ jreq[h].pc = "done"
  /\ jreq' = [jreq EXCEPT ![h] = [IdleHandler EXCEPT
       !.pc = "find", !.kind = "tick", !.found = liveEvent]]
  /\ UNCHANGED <<now, wireVars, postVars, connected, room, eventIdSet, liveEvent, replies, bcast, pollVars,
                 qaVars, iceVars, photoVars, lifeVars, areq, otherVars>>

\* ---------------------------------------------------------------- track_engagement
\* socket.on('track_engagement') up to await analytics.save(); without
\* eventId or action the handler returns at once
TrackEngagement(h, c, hasFields) ==
  /\ NextSlot(jreq, h)
  /\ c \in connected
  /\ jreq' = [jreq EXCEPT ![h] =
       IF ~hasFields THEN HandlerDone([kind |-> "track", conn |-> c])
       ELSE [IdleHandler EXCEPT !.pc = "analytics", !.kind = "track", !.conn = c]]
  /\ UNCHANGED <<now, wireVars, postVars, connected, room, eventIdSet, liveEvent, replies, bcast, pollVars,
                 qaVars, iceVars, photoVars, lifeVars, areq, otherVars>>

\* await analytics.save() resolves and LiveEvent.findOne reads the store
TrackAnalyticsSaved(h) ==
  /\ jreq[h].kind = "track" /\ jreq[h].pc = "analytics"
  /\ jreq' = [jreq EXCEPT ![h].pc = "find", ![h].found = liveEvent]
  /\ UNCHANGED <<now, wireVars, postVars, connected, room, eventIdSet, liveEvent, replies, bcast, pollVars,
                 qaVars, iceVars, photoVars, lifeVars, areq, otherVars>>

\* await LiveEvent.findOne resolves.  Live: metrics.totalInteractions++ and
\* the save is sent.  Otherwise the handler returns.
TrackFound(h) ==
  /\ jreq[h].kind = "track" /\ jreq[h].pc = "find"
  /\ jreq' = [jreq EXCEPT ![h] =
       IF IsLive(jreq[h].found)
       THEN [@ EXCEPT !.pc = "save", !.found = NoLiveEvent,
                      !.totalInteractions = jreq[h].found.totalInteractions + 1,
                      !.dirty = {"totalInteractions"}]
       ELSE HandlerDone(@)]
  /\ UNCHANGED <<now, wireVars, postVars, connected, room, eventIdSet, liveEvent, replies, bcast, pollVars,
                 qaVars, iceVars, photoVars, lifeVars, areq, otherVars>>

\* await liveEvent.save() resolves; nothing is emitted
TrackSaved(h) ==
  /\ jreq[h].kind = "track" /\ jreq[h].pc = "save"
  /\ liveEvent' = LiveEventApplySave(liveEvent, jreq[h])
  /\ jreq' = [jreq EXCEPT ![h] = HandlerDone(@)]
  /\ UNCHANGED <<now, wireVars, postVars, connected, room, eventIdSet, replies, bcast, pollVars, qaVars,
                 iceVars, photoVars, lifeVars, areq, otherVars>>

\* an await of track_engagement rejects: the catch block logs
TrackFails(h) ==
  /\ jreq[h].kind = "track" /\ jreq[h].pc \in {"analytics", "find", "save"}
  /\ jreq' = [jreq EXCEPT ![h] = HandlerDone(@)]
  /\ UNCHANGED <<now, wireVars, postVars, connected, room, eventIdSet, liveEvent, replies, bcast, pollVars,
                 qaVars, iceVars, photoVars, lifeVars, areq, otherVars>>

\* ---------------------------------------------------------------- the tick over two live events
\* the room of an event
RoomOf(e) == IF e = EventA THEN room ELSE otherRoom

\* the stored LiveEvent of an event
LiveEventOf(e) == IF e = EventA THEN liveEvent ELSE liveEventOther

\* the LiveEvent of an event as a tick callback read it
FoundOf(h, e) == IF e = EventA THEN h.found ELSE h.foundOther

\* the orders in which LiveEvent.find, which sorts by nothing, may return
\* the documents of the two events
FindOrders == {<<EventA, EventB>>, <<EventB, EventA>>}

\* the documents of a find result that match {status: 'live'}
RECURSIVE LiveOnly(_, _)
LiveOnly(h, order) ==
  IF order = <<>> THEN <<>>
  ELSE (IF IsLive(FoundOf(h, Head(order))) THEN <<Head(order)>> ELSE <<>>)
       \o LiveOnly(h, Tail(order))

\* the setInterval callback up to its await LiveEvent.find({status: 'live'}),
\* which reads the store
TickRoomsStart(h) ==
  /\ NextSlot(jreq, h)
  /\ jreq' = [jreq EXCEPT ![h] = [IdleHandler EXCEPT
       !.pc = "find", !.kind = "tickRooms", !.found = liveEvent,
       !.foundOther = liveEventOther]]
  /\ UNCHANGED <<now, wireVars, postVars, connected, room, eventIdSet, liveEvent, replies, bcast, pollVars,
                 qaVars, iceVars, photoVars, lifeVars, areq, otherVars>>

\* await LiveEvent.find resolves with the live documents, in some order: the
\* for loop starts
TickRoomsFound(h, order) ==
  /\ jreq[h].kind = "tickRooms" /\ jreq[h].pc = "find"
  /\ jreq' = [jreq EXCEPT ![h] = [@ EXCEPT !.pc = "room", !.rest = LiveOnly(jreq[h], order)]]
  /\ UNCHANGED <<now, wireVars, postVars, connected, room, eventIdSet, liveEvent, replies, bcast, pollVars,
                 qaVars, iceVars, photoVars, lifeVars, areq, otherVars>>

\* one turn of the for loop up to its await liveEvent.save(): the room of the
\* next document is counted; a count that differs from the document's is
\* set, with the peak, and the save is sent; otherwise the loop goes on.
\* After the last document the callback returns.
TickRoomsCount(h) ==
  /\ jreq[h].kind = "tickRooms" /\ jreq[h].pc = "room"
  /\ jreq' = [jreq EXCEPT ![h] =
       IF @.rest = <<>> THEN HandlerDone(@)
       ELSE LET le == FoundOf(@, Head(@.rest))
                activeUsers == getActiveUsersCount(RoomOf(Head(@.rest)))
                peak == IF activeUsers > le.peakAttendance
                        THEN activeUsers ELSE le.peakAttendance
            IN IF activeUsers # le.activeUsers
               THEN [@ EXCEPT !.pc = "save",
                              !.activeUsers = activeUsers, !.peakAttendance = peak,
                              !.dirty = {"activeUsers"}
                                        \cup (IF peak # le.peakAttendance
                                              THEN {"peakAttendance"} ELSE {})]
               ELSE [@ EXCEPT !.rest = Tail(@)]]
  /\ UNCHANGED <<now, wireVars, postVars, connected, room, eventIdSet, liveEvent, replies, bcast, pollVars,
                 qaVars, iceVars, photoVars, lifeVars, areq, otherVars>>

\* the metrics_update payload and the room it is emitted to
MetricsUpdateMsg(e, h) ==
  [type |-> "metrics_update", room |-> e, activeUsers |-> h.activeUsers,
   peakAttendance |-> h.peakAttendance]

\* await liveEvent.save() resolves, then the metrics_update broadcast to the
\* document's room, and the loop goes on with the next document
TickRoomsSaved(h) ==
  /\ jreq[h].kind = "tickRooms" /\ jreq[h].pc = "save"
  /\ LET e == Head(jreq[h].rest)
     IN /\ IF e = EventA
           THEN /\ liveEvent' = LiveEventApplySave(liveEvent, jreq[h])
                /\ UNCHANGED liveEventOther
           ELSE /\ liveEventOther' = LiveEventApplySave(liveEventOther, jreq[h])
                /\ UNCHANGED liveEvent
        /\ bcast' = Append(bcast, MetricsUpdateMsg(e, jreq[h]))
  /\ jreq' = [jreq EXCEPT ![h] = [@ EXCEPT !.pc = "room", !.rest = Tail(@),
                                           !.dirty = {}]]
  /\ UNCHANGED <<now, wireVars, postVars, connected, room, eventIdSet, replies, pollVars, qaVars, iceVars,
                 photoVars, lifeVars, areq, otherRoom, eventIdOther>>

\* await LiveEvent.find or await liveEvent.save() rejects: the catch block,
\* which is outside the for loop, logs, and the callback returns.  rest keeps
\* the documents the loop had not finished, the one whose save failed first.
TickRoomsFails(h) ==
  /\ jreq[h].kind = "tickRooms" /\ jreq[h].pc \in {"find", "save"}
  /\ jreq' = [jreq EXCEPT ![h] = [HandlerDone(@) EXCEPT !.rest = jreq[h].rest]]
  /\ UNCHANGED <<now, wireVars, postVars, connected, room, eventIdSet, liveEvent, replies, bcast, pollVars,
                 qaVars, iceVars, photoVars, lifeVars, areq, otherVars>>

\* ---------------------------------------------------------------- a second room
\* socket.on('join_event') with the id of the second event, up to await
\* analytics.save(): nothing is checked before socket.join, and
\* socket.eventId is overwritten
JoinOtherEvent(h, c) ==
  /\ NextSlot(jreq, h)
  /\ c \in connected
  /\ otherRoom' = socketJoin(otherRoom, c)
  /\ eventIdSet' = eventIdSet \cup {c}
  /\ eventIdOther' = eventIdOther \cup {c}
  /\ jreq' = [jreq EXCEPT ![h] = [IdleHandler EXCEPT
       !.pc = "analytics", !.kind = "joinOther", !.conn = c]]
  /\ UNCHANGED <<now, wireVars, postVars, connected, room, liveEvent, replies, bcast, pollVars, qaVars,
                 iceVars, photoVars, lifeVars, areq, liveEventOther>>

\* await analytics.save() resolves and LiveEvent.findOne is sent
JoinOtherAnalyticsSaved(h) ==
  /\ jreq[h].kind = "joinOther" /\ jreq[h].pc = "analytics"
  /\ jreq' = [jreq EXCEPT ![h].pc = "find"]
  /\ UNCHANGED <<now, wireVars, postVars, connected, room, eventIdSet, liveEvent, replies, bcast, pollVars,
                 qaVars, iceVars, photoVars, lifeVars, areq, otherVars>>

\* await LiveEvent.findOne resolves: the second event has no LiveEvent, so
\* the joined_event reply goes out at once, with the count of its room
JoinOtherFound(h) ==
  /\ jreq[h].kind = "joinOther" /\ jreq[h].pc = "find"
  /\ replies' = SendTo(jreq[h].conn,
       [to |-> jreq[h].conn, type |-> "joined_event", eventId |-> EventB,
        activeUsers |-> getActiveUsersCount(otherRoom)])
  /\ jreq' = [jreq EXCEPT ![h] = HandlerDone(@)]
  /\ UNCHANGED <<now, wireVars, postVars, connected, room, eventIdSet, liveEvent, bcast, pollVars,
                 qaVars, iceVars, photoVars, lifeVars, areq, otherVars>>

\* disconnect of a socket whose socket.eventId names the second event:
\* await LiveEvent.findOne resolves, no LiveEvent, nothing to update
DisconnectOtherFound(h) ==
  /\ jreq[h].kind = "disconnectOther" /\ jreq[h].pc = "find"
  /\ jreq' = [jreq EXCEPT ![h] = HandlerDone(@)]
  /\ UNCHANGED <<now, wireVars, postVars, connected, room, eventIdSet, liveEvent, replies, bcast, pollVars,
                 qaVars, iceVars, photoVars, lifeVars, areq, otherVars>>

\* an await of a handler for the second event rejects
OtherFails(h) ==
  /\ jreq[h].kind \in {"joinOther", "disconnectOther"}
  /\ jreq[h].pc \in {"analytics", "find"}
  /\ replies' = IF jreq[h].kind = "joinOther"
                THEN SendTo(jreq[h].conn, Reply(jreq[h].conn, "error", 0))
                ELSE replies
  /\ jreq' = [jreq EXCEPT ![h] = HandlerDone(@)]
  /\ UNCHANGED <<now, wireVars, postVars, connected, room, eventIdSet, liveEvent, bcast, pollVars,
                 qaVars, iceVars, photoVars, lifeVars, areq, otherVars>>

\* ---------------------------------------------------------------- typing
\* data.eventId absent, socket.eventId not set
NoEventId == "none"

\* socket.eventId: the event of the socket's last join_event
socketEventId(c) ==
  IF c \in eventIdOther THEN EventB
  ELSE IF c \in eventIdSet THEN EventA ELSE NoEventId

\* the user_typing payload and the room it is emitted to; socket.to(room)
\* leaves out the sending socket
UserTypingMsg(e, c, isTyping) ==
  [type |-> "user_typing", room |-> e, from |-> c, isTyping |-> isTyping]

\* socket.on('typing_start') and socket.on('typing_stop'): user_typing to the
\* room of data.eventId if it is the socket's eventId.  Nothing is awaited.
Typing(c, e, isTyping) ==
  /\ c \in connected
  /\ Len(bcast) < MaxReqs
  /\ bcast' = IF e # NoEventId /\ socketEventId(c) = e
              THEN Append(bcast, UserTypingMsg(e, c, isTyping))
              ELSE bcast
  /\ UNCHANGED <<now, wireVars, postVars, pollVars, qaVars, iceVars, roomVars, photoVars,
                 lifeVars, areq, otherVars>>

\* ================================================================ photos
\* new LivePhoto({uploadedBy, imageUrl, status}): no likes, likeCount 0
NewPhoto(u, status) ==
  [uploadedBy |-> u, status |-> status, likes |-> <<>>, likeCount |-> 0, v |-> 0]

\* a share that never holds a photo back for moderation
ShareStatusUnmoderated(le) == "approved"

\* liveEvent.liveSettings.moderationRequired ? 'pending' : 'approved'
ShareStatus(le) == IF le.moderationRequired THEN "pending" ELSE "approved"

\* photo.likes.includes(req.user.id)
hasLiked(ph, u) == u \in Range(ph.likes)

\* the in-memory photo after the handler's branch: filter and likeCount--
\* when the user is in likes, push and likeCount++ otherwise
ToggleLike(ph, u) ==
  IF hasLiked(ph, u)
  THEN [ph EXCEPT !.likes = Without(@, u), !.likeCount = @ - 1]
  ELSE [ph EXCEPT !.likes = Append(@, u), !.likeCount = @ + 1]

\* the filter of the update sent by photo.save(): as for a question's
\* upvotes, only the $set of the whole likes array tests __v
LikeVersionMatches(stored, doc, removing) == removing => stored.v = doc.v

\* the update of photo.save() applied to the stored document
LikeApplySave(stored, doc, u, removing) ==
  [stored EXCEPT !.likes = IF removing THEN doc.likes ELSE Append(@, u),
                 !.likeCount = doc.likeCount,
                 !.v = @ + 1]

NewPhotoMsg(id) == [type |-> "new_photo", photoId |-> id, likeCount |-> 0]

\* the photo_like payload, and the room it is emitted to: that of the
\* eventId of the request's URL
PhotoLikeMsg(e, id, doc, removing) ==
  [type |-> "photo_like", room |-> e, photoId |-> id, likeCount |-> doc.likeCount,
   userLiked |-> ~removing]

IdlePhotoReq ==
  [pc |-> "idle", kind |-> "none", user |-> NoUser, event |-> EventA, id |-> 0,
   doc |-> NoDoc, removing |-> FALSE, result |-> "none"]

PhotoAnswered(kind, u, result) ==
  [IdlePhotoReq EXCEPT !.pc = "done", !.kind = kind, !.user = u, !.result = result]

\* POST /:eventId/photos up to its await LiveEvent.findOne
ShareRequest(r, u, hasImageUrl) ==
  /\ NextSlot(preq, r)
  /\ preq' = [preq EXCEPT ![r] =
       IF ~hasImageUrl THEN PhotoAnswered("share", u, "400 image url required")
       ELSE [IdlePhotoReq EXCEPT !.pc = "find", !.kind = "share", !.user = u]]
  /\ UNCHANGED <<now, wireVars, postVars, photos, bcast, pollVars, qaVars, iceVars, roomVars, lifeVars,
                 areq, otherVars>>

\* await LiveEvent.findOne({eventId, status: 'live'}) resolves: 404, or the
\* new photo with the status the moderation setting gives it
ShareFound(r) ==
  /\ preq[r].kind = "share" /\ preq[r].pc = "find"
  /\ preq' = [preq EXCEPT ![r] =
       IF ~IsLive(liveEvent) THEN PhotoAnswered("share", @.user, "404 live event not found")
       ELSE [@ EXCEPT !.pc = "save",
                      !.doc = NewPhoto(preq[r].user, ShareStatus(liveEvent))]]
  /\ UNCHANGED <<now, wireVars, postVars, photos, bcast, pollVars, qaVars, iceVars, roomVars, lifeVars,
                 areq, otherVars>>

\* await photo.save() and await photo.populate(), then the new_photo
\* broadcast if the photo is approved, and the 201 answer
ShareSave(r) ==
  /\ preq[r].kind = "share" /\ preq[r].pc = "save"
  /\ photos' = Append(photos, preq[r].doc)
  /\ bcast' = IF preq[r].doc.status = "approved"
              THEN Append(bcast, NewPhotoMsg(Len(photos) + 1))
              ELSE bcast
  /\ preq' = [preq EXCEPT ![r] =
       PhotoAnswered("share", @.user,
                     IF @.doc.status = "pending" THEN "201 submitted for moderation"
                     ELSE "201 photo shared")]
  /\ UNCHANGED <<now, wireVars, postVars, pollVars, qaVars, iceVars, roomVars, lifeVars, areq, otherVars>>

\* POST /:eventId/photos/:photoId/like up to its await photo.save(): the
\* photo is looked up by its id alone
LikeRequest(r, u, e, id) ==
  /\ NextSlot(preq, r)
  /\ preq' = [preq EXCEPT ![r] =
       IF id \notin DOMAIN photos THEN PhotoAnswered("like", u, "404 photo not found")
       ELSE [IdlePhotoReq EXCEPT !.pc = "save", !.kind = "like", !.user = u,
                                 !.event = e, !.id = id,
                                 !.doc = ToggleLike(photos[id], u),
                                 !.removing = hasLiked(photos[id], u)]]
  /\ UNCHANGED <<now, wireVars, postVars, photos, bcast, pollVars, qaVars, iceVars, roomVars, lifeVars,
                 areq, otherVars>>

\* await photo.save(), then the photo_like broadcast and the 200 answer;
\* VersionError goes to the catch block
LikeSave(r) ==
  /\ preq[r].kind = "like" /\ preq[r].pc = "save"
  /\ LET q == preq[r]
     IN IF LikeVersionMatches(photos[q.id], q.doc, q.removing)
        THEN /\ photos' = [photos EXCEPT ![q.id] =
                  LikeApplySave(@, q.doc, q.user, q.removing)]
             /\ bcast' = Append(bcast, PhotoLikeMsg(q.event, q.id, q.doc, q.removing))
             /\ preq' = [preq EXCEPT ![r] =
                  PhotoAnswered("like", q.user, IF q.removing THEN "200 like removed"
                                                ELSE "200 photo liked")]
        ELSE /\ preq' = [preq EXCEPT ![r] =
                  PhotoAnswered("like", q.user, "500 failed: VersionError")]
             /\ UNCHANGED <<photos, bcast>>
  /\ UNCHANGED <<now, wireVars, postVars, pollVars, qaVars, iceVars, roomVars, lifeVars, areq, otherVars>>

\* await photo.save() rejects because the store is unavailable: catch, 500
PhotoSaveFails(r) ==
  /\ preq[r].pc = "save"
  /\ preq' = [preq EXCEPT ![r] = PhotoAnswered(@.kind, @.user, "500 failed")]
  /\ UNCHANGED <<now, wireVars, postVars, photos, bcast, pollVars, qaVars, iceVars, roomVars, lifeVars,
                 areq, otherVars>>

\* ================================================================ lifecycle
\* req.body.liveSettings: absent, or setting moderationRequired
NoSettings == [none |-> TRUE]
LiveSettingsInputs ==
  {NoSettings} \cup {[moderationRequired |-> m] : m \in BOOLEAN}

\* updateMetrics: chat messages + total poll votes + questions + photos of
\* the LiveEvent (it has no chat messages, one poll and one question)
CountInteractions == 0 + poll.totalVotes + 1 + Len(photos)

IdleLifeReq ==
  [pc |-> "idle", kind |-> "none", user |-> NoUser, created |-> FALSE,
   startedAt |-> NoDate, endedAt |-> NoDate, settings |-> NoSettings, dirty |-> {},
   totalInteractions |-> 0, result |-> "none"]

LifeAnswered(q, result) ==
  [IdleLifeReq EXCEPT !.pc = "done", !.kind = q.kind, !.user = q.user,
                      !.result = result]

\* a start request that takes no LiveEvent for live
AlreadyLiveUnchecked(le) == FALSE

\* liveEvent && liveEvent.status === 'live'
AlreadyLive(le) == le.status = "live"

\* POST /:eventId/start up to its await LiveEvent.findOne: the ownership
\* check on the Event
StartRequest(r, u, settings) ==
  /\ NextSlot(lreq, r)
  /\ lreq' = [lreq EXCEPT ![r] =
       IF ~IsOrganizer(u, EventA)
       THEN LifeAnswered([kind |-> "start", user |-> u], "404 event not found")
       ELSE [IdleLifeReq EXCEPT !.pc = "find", !.kind = "start", !.user = u,
                                !.settings = settings]]
  /\ UNCHANGED <<now, wireVars, postVars, bcast, duplicates, pollVars, qaVars, iceVars, roomVars,
                 photoVars, areq, otherVars>>

\* await LiveEvent.findOne resolves.  Live: 400.  Otherwise the document
\* (a new one if none was found) gets status live and startedAt = new Date(),
\* and the save is sent.  Time has passed when the next date is read.
StartFound(r) ==
  /\ lreq[r].kind = "start" /\ lreq[r].pc = "find"
  /\ IF AlreadyLive(liveEvent)
     THEN /\ lreq' = [lreq EXCEPT ![r] = LifeAnswered(@, "400 already live")]
          /\ UNCHANGED now
     ELSE /\ lreq' = [lreq EXCEPT ![r] = [@ EXCEPT
               !.pc = "save", !.created = (liveEvent.status = "absent"),
               !.startedAt = now]]
          /\ now' = now + 1
  /\ UNCHANGED <<wireVars, postVars, bcast, duplicates, pollVars, qaVars, iceVars, roomVars,
                 photoVars, areq, otherVars>>

\* the document a start request inserts: new LiveEvent with the schema
\* defaults, liveSettings from the request, status live
CreatedLiveEvent(q) ==
  [status |-> "live", activeUsers |-> 0, peakAttendance |-> 0, totalInteractions |-> 0,
   moderationRequired |-> IF q.settings = NoSettings THEN TRUE
                          ELSE q.settings.moderationRequired,
   startedAt |-> q.startedAt, endedAt |-> NoDate]

\* the update of liveEvent.save() of a start request on a stored document:
\* $set of status, startedAt and the liveSettings of the request
StartApplySave(stored, q) ==
  [stored EXCEPT !.status = "live", !.startedAt = q.startedAt,
                 !.moderationRequired = IF q.settings = NoSettings THEN @
                                        ELSE q.settings.moderationRequired]

EventStartedMsg(q) == [type |-> "event_started", startedAt |-> q.startedAt]

\* await liveEvent.save() resolves, then the event_started broadcast and the
\* 200 answer.  A new document is inserted: eventId has no unique index, so
\* when another request has inserted one meanwhile the collection holds two,
\* and findOne keeps returning the first.
StartSave(r) ==
  /\ lreq[r].kind = "start" /\ lreq[r].pc = "save"
  /\ IF ~lreq[r].created
     THEN liveEvent' = StartApplySave(liveEvent, lreq[r]) /\ UNCHANGED duplicates
     ELSE IF liveEvent.status = "absent"
     THEN liveEvent' = CreatedLiveEvent(lreq[r]) /\ UNCHANGED duplicates
     ELSE duplicates' = duplicates + 1 /\ UNCHANGED liveEvent
  /\ bcast' = Append(bcast, EventStartedMsg(lreq[r]))
  /\ lreq' = [lreq EXCEPT ![r] = LifeAnswered(@, "200 started")]
  /\ UNCHANGED <<now, wireVars, postVars, connected, room, eventIdSet, jreq, replies, pollVars, qaVars,
                 iceVars, photoVars, areq, otherVars>>

\* POST /:eventId/end up to its await LiveEvent.findOne
EndRequest(r, u) ==
  /\ NextSlot(lreq, r)
  /\ lreq' = [lreq EXCEPT ![r] =
       [IdleLifeReq EXCEPT !.pc = "find", !.kind = "end", !.user = u]]
  /\ UNCHANGED <<now, wireVars, postVars, bcast, duplicates, pollVars, qaVars, iceVars, roomVars,
                 photoVars, areq, otherVars>>

\* await LiveEvent.findOne and await Event.findOne resolve: 404 without a
\* LiveEvent, 403 for another user than the organizer; otherwise status and
\* endedAt = new Date() are set and updateMetrics sends its counts
EndFound(r) ==
  /\ lreq[r].kind = "end" /\ lreq[r].pc = "find"
  /\ IF liveEvent.status = "absent"
     THEN /\ lreq' = [lreq EXCEPT ![r] = LifeAnswered(@, "404 live event not found")]
          /\ UNCHANGED now
     ELSE IF ~IsOrganizer(lreq[r].user, EventA)
     THEN /\ lreq' = [lreq EXCEPT ![r] = LifeAnswered(@, "403 access denied")]
          /\ UNCHANGED now
     ELSE /\ lreq' = [lreq EXCEPT ![r] = [@ EXCEPT
               !.pc = "metrics", !.endedAt = now,
               !.totalInteractions = liveEvent.totalInteractions,
               !.dirty = IF liveEvent.status # "ended" THEN {"status"} ELSE {}]]
          /\ now' = now + 1
  /\ UNCHANGED <<wireVars, postVars, bcast, duplicates, pollVars, qaVars, iceVars, roomVars,
                 photoVars, areq, otherVars>>

\* updateMetrics: the counts of Promise.all resolve, totalInteractions is
\* set and this.save() is sent
EndMetrics(r) ==
  /\ lreq[r].kind = "end" /\ lreq[r].pc = "metrics"
  /\ lreq' = [lreq EXCEPT ![r] = [@ EXCEPT
       !.pc = "save", !.totalInteractions = CountInteractions,
       !.dirty = @ \cup (IF CountInteractions # lreq[r].totalInteractions
                         THEN {"totalInteractions"} ELSE {})]]
  /\ UNCHANGED <<now, wireVars, postVars, bcast, duplicates, pollVars, qaVars, iceVars, roomVars,
                 photoVars, areq, otherVars>>

\* the update of the save inside updateMetrics: $set of the paths the end
\* request changed
EndApplySave(stored, q) ==
  [stored EXCEPT
     !.status = IF "status" \in q.dirty THEN "ended" ELSE @,
     !.endedAt = q.endedAt,
     !.totalInteractions = IF "totalInteractions" \in q.dirty
                           THEN q.totalInteractions ELSE @]

\* updateMetrics: await this.save() resolves; the handler sends its own
\* liveEvent.save(), which has nothing left to write
EndSave(r) ==
  /\ lreq[r].kind = "end" /\ lreq[r].pc = "save"
  /\ liveEvent' = EndApplySave(liveEvent, lreq[r])
  /\ lreq' = [lreq EXCEPT ![r].pc = "saved"]
  /\ UNCHANGED <<now, wireVars, postVars, bcast, duplicates, connected, room, eventIdSet, jreq, replies,
                 pollVars, qaVars, iceVars, photoVars, areq, otherVars>>

EventEndedMsg(q) ==
  [type |-> "event_ended", endedAt |-> q.endedAt,
   totalInteractions |-> q.totalInteractions]

\* await liveEvent.save() resolves, then the event_ended broadcast and the
\* 200 answer
EndSaved(r) ==
  /\ lreq[r].kind = "end" /\ lreq[r].pc = "saved"
  /\ bcast' = Append(bcast, EventEndedMsg(lreq[r]))
  /\ lreq' = [lreq EXCEPT ![r] = LifeAnswered(@, "200 ended")]
  /\ UNCHANGED <<now, wireVars, postVars, duplicates, pollVars, qaVars, iceVars, roomVars,
                 photoVars, areq, otherVars>>

\* an await of a start or end request rejects (store unavailable): catch, 500
LifeFails(r) ==
  /\ lreq[r].pc \in {"find", "metrics", "save", "saved"}
  /\ lreq' = [lreq EXCEPT ![r] = LifeAnswered(@, "500 failed")]
  /\ UNCHANGED <<now, wireVars, postVars, bcast, duplicates, pollVars, qaVars, iceVars, roomVars,
                 photoVars, areq, otherVars>>

\* ---------------------------------------------------------------- Q&A answer
\* question.answer = {text: answer.trim(), answeredBy}; status = 'answered'
AnswerQuestion(q, u, text) ==
  [q EXCEPT !.answer = [text |-> Trim(text), answeredBy |-> u], !.status = "answered"]

\* the update of question.save() of an answer request: $set of answer and
\* status; no array is touched, so __v is neither tested nor incremented
AnswerApplySave(stored, doc) ==
  [stored EXCEPT !.answer = doc.answer, !.status = doc.status]

\* the qa_answered payload, and the room it is emitted to: that of the
\* eventId of the request's URL
AnsweredMsg(e, doc) ==
  [type |-> "qa_answered", room |-> e, answer |-> doc.answer, status |-> doc.status]

IdleAnswer ==
  [pc |-> "idle", user |-> NoUser, event |-> EventA, doc |-> NoDoc, result |-> "none"]

AnswerAnswered(u, e, result) ==
  [pc |-> "done", user |-> u, event |-> e, doc |-> NoDoc, result |-> result]

\* POST /:eventId/qa/questions/:questionId/answer up to its await
\* question.save(): the answer text, the ownership of the event named in
\* the URL, the question
AnswerRequest(r, u, e, found, text) ==
  /\ NextSlot(areq, r)
  /\ areq' = [areq EXCEPT ![r] =
       IF Trim(text) = "" THEN AnswerAnswered(u, e, "400 answer required")
       ELSE IF ~IsOrganizer(u, e) THEN AnswerAnswered(u, e, "403 only organizers")
       ELSE IF ~found THEN AnswerAnswered(u, e, "404 question not found")
       ELSE [pc |-> "save", user |-> u, event |-> e,
             doc |-> AnswerQuestion(qa, u, text), result |-> "none"]]
  /\ UNCHANGED <<now, wireVars, postVars, qa, ureq, bcast, pollVars, iceVars, roomVars, photoVars,
                 lifeVars, otherVars>>

\* await question.save() and await question.populate(), then the
\* qa_answered broadcast and the 200 answer
AnswerSave(r) ==
  /\ areq[r].pc = "save"
  /\ qa' = AnswerApplySave(qa, areq[r].doc)
  /\ bcast' = Append(bcast, AnsweredMsg(areq[r].event, areq[r].doc))
  /\ areq' = [areq EXCEPT ![r] = AnswerAnswered(@.user, @.event, "200 answered")]
  /\ UNCHANGED <<now, wireVars, postVars, ureq, pollVars, iceVars, roomVars, photoVars, lifeVars, otherVars>>

\* await question.save() rejects because the store is unavailable
AnswerSaveFails(r) ==
  /\ areq[r].pc = "save"
  /\ areq' = [areq EXCEPT ![r] = AnswerAnswered(@.user, @.event, "500 failed")]
  /\ UNCHANGED <<now, wireVars, postVars, qa, ureq, bcast, pollVars, iceVars, roomVars, photoVars,
                 lifeVars, otherVars>>

\* ================================================================ ask and chat
\* req.body.question of the ask route, req.body.message of the chat route
PostKinds == {"ask", "chat"}

IdlePost == [pc |-> "idle", kind |-> "none", user |-> NoUser, result |-> "none"]

PostAnswered(kind, u, result) ==
  [pc |-> "done", kind |-> kind, user |-> u, result |-> result]

\* new LiveQA({liveEventId, question, askedBy}): status takes its default
NewQAQuestion(u) == [askedBy |-> u, status |-> "pending"]

\* new LiveChat({liveEventId, userId, message, messageType})
NewChatMessage(u) == [userId |-> u, isVisible |-> TRUE]

NewQuestionMsg(id) == [type |-> "new_qa_question", id |-> id]

ChatMsg(id) == [type |-> "chat_message", id |-> id]

\* POST /:eventId/qa/questions and POST /:eventId/chat up to their await
\* LiveEvent.findOne
PostRequest(r, u, kind, text) ==
  /\ NextSlot(creq, r)
  /\ creq' = [creq EXCEPT ![r] =
       IF Trim(text) = ""
       THEN PostAnswered(kind, u, IF kind = "ask" THEN "400 question required"
                                  ELSE "400 message required")
       ELSE [pc |-> "find", kind |-> kind, user |-> u, result |-> "none"]]
  /\ questions' = questions /\ chats' = chats
  /\ UNCHANGED <<now, wireVars, bcast, pollVars, qaVars, iceVars, roomVars, photoVars,
                 lifeVars, areq, otherVars>>

\* await LiveEvent.findOne({eventId, status: 'live'}) resolves: 404, or the
\* new document is built
PostFound(r) ==
  /\ creq[r].pc = "find"
  /\ creq' = [creq EXCEPT ![r] =
       IF ~IsLive(liveEvent)
       THEN PostAnswered(@.kind, @.user, "404 live event not found")
       ELSE [@ EXCEPT !.pc = "save"]]
  /\ questions' = questions /\ chats' = chats
  /\ UNCHANGED <<now, wireVars, bcast, pollVars, qaVars, iceVars, roomVars, photoVars,
                 lifeVars, areq, otherVars>>

\* await save() and await populate(), then the new_qa_question or
\* chat_message broadcast and the 201 answer
PostSave(r) ==
  /\ creq[r].pc = "save"
  /\ IF creq[r].kind = "ask"
     THEN /\ questions' = Append(questions, NewQAQuestion(creq[r].user))
          /\ chats' = chats
          /\ bcast' = Append(bcast, NewQuestionMsg(Len(questions) + 1))
     ELSE /\ chats' = Append(chats, NewChatMessage(creq[r].user))
          /\ questions' = questions
          /\ bcast' = Append(bcast, ChatMsg(Len(chats) + 1))
  /\ creq' = [creq EXCEPT ![r] =
       PostAnswered(@.kind, @.user, IF @.kind = "ask" THEN "201 question submitted"
                                    ELSE "201 message sent")]
  /\ UNCHANGED <<now, wireVars, pollVars, qaVars, iceVars, roomVars, photoVars,
                 lifeVars, areq, otherVars>>

\* await save() rejects, the store being unavailable or the text longer than
\* the schema's maxlength: catch, 500
PostSaveFails(r) ==
  /\ creq[r].pc = "save"
  /\ creq' = [creq EXCEPT ![r] = PostAnswered(@.kind, @.user, "500 failed")]
  /\ questions' = questions /\ chats' = chats
  /\ UNCHANGED <<now, wireVars, bcast, pollVars, qaVars, iceVars, roomVars, photoVars,
                 lifeVars, areq, otherVars>>

\* ================================================================ delivery
\* io.to(room).emit writes the packet to every socket of the room before it
\* returns (in-process adapter), and a socket's transport hands its packets
\* to the client in the order in which they were written.  For a socket that
\* is in the room all along, what is written to it is bcast, so what it has
\* yet to receive are the entries of bcast that are not in seen.
Pending(c) == {k \in DOMAIN bcast : k \notin Range(seen[c])}

\* a transport that hands over any of the packets written to it
ReceiveAny(c) ==
  /\ c \in room /\ c \in connected
  /\ \E k \in Pending(c) : seen' = [seen EXCEPT ![c] = Append(@, k)]
  /\ UNCHANGED <<now, postVars, bcast, pollVars, qaVars, iceVars, roomVars, photoVars,
                 lifeVars, areq, otherVars>>

\* the client of socket c receives the next packet of its transport
Receive(c) ==
  /\ c \in room /\ c \in connected
  /\ Pending(c) # {}
  /\ LET k == CHOOSE i \in Pending(c) : \A j \in Pending(c) : i <= j
     IN seen' = [seen EXCEPT ![c] = Append(@, k)]
  /\ UNCHANGED <<now, postVars, bcast, pollVars, qaVars, iceVars, roomVars, photoVars,
                 lifeVars, areq, otherVars>>

\* ================================================================ specifications
\* no request made, nothing sent or received, every socket open
InitSilent ==
  /\ now = 0
  /\ vreq = [r \in VoteReqs |-> IdleVote]
  /\ ureq = [r \in Reqs |-> IdleUpvote]
  /\ ireq = [r \in Reqs |-> IdleRespond]
  /\ bcast = <<>>
  /\ replies = <<>>
  /\ connected = Conns
  /\ photos = <<>>
  /\ preq = [r \in Reqs |-> IdlePhotoReq]
  /\ lreq = [r \in Handlers |-> IdleLifeReq]
  /\ duplicates = 0
  /\ areq = [r \in Reqs |-> IdleAnswer]
  /\ eventIdOther = {}
  /\ seen = [c \in Conns |-> <<>>]
  /\ questions = <<>>
  /\ chats = <<>>
  /\ creq = [r \in Handlers |-> IdlePost]

\* the same, no socket having joined a room
InitQuiet == InitSilent /\ eventIdSet = {}

\* what every specification starts from, the socket handlers aside: nothing
\* requested, nothing sent, the rooms empty, no LiveEvent for the second
\* event
InitOthers ==
  /\ InitQuiet
  /\ room = {}
  /\ otherRoom = {}
  /\ liveEventOther = NoLiveEvent

\* what every specification starts from: no socket handler has run either
InitRequests == InitOthers /\ jreq = [h \in Handlers |-> IdleHandler]

\* a live event with one poll, one question and one icebreaker just created
InitEntities ==
  /\ qa = NewQuestion
  /\ ice = NewIcebreaker
  /\ poll = NewPoll(FALSE, NoExpiry)
  /\ liveEvent = StartedLiveEvent

\* polls: a poll as POST /:eventId/polls creates it: single or multiple
\* choice without an expiry, or single choice with one
InitPoll ==
  /\ InitRequests
  /\ qa = NewQuestion
  /\ ice = NewIcebreaker
  /\ liveEvent = StartedLiveEvent
  /\ \/ \E allowMultiple \in BOOLEAN : poll = NewPoll(allowMultiple, NoExpiry)
     \/ poll = NewPoll(FALSE, now)

NextPoll ==
  \/ \E r \in VoteReqs, u \in Users, idx \in IdxInputs : VoteRequest(r, u, TRUE, idx)
  \/ \E r \in VoteReqs, u \in Users : VoteRequest(r, u, FALSE, <<1>>)
  \/ \E r \in VoteReqs : VoteSave(r)
  \/ \E r \in VoteReqs : VoteSaveFails(r)
  \/ Tick

SpecPoll == InitPoll /\ [][NextPoll]_vars

\* Q&A: one question as POST /:eventId/qa/questions creates it
InitQA == InitRequests /\ InitEntities

NextQA ==
  \/ \E r \in Reqs, u \in Users, found \in BOOLEAN : UpvoteRequest(r, u, found)
  \/ \E r \in Reqs : UpvoteSave(r)
  \/ \E r \in Reqs : UpvoteSaveFails(r)

SpecQA == InitQA /\ [][NextQA]_vars

\* icebreakers: one icebreaker as POST /:eventId/icebreakers creates it
InitIce == InitRequests /\ InitEntities

NextIce ==
  \/ \E r \in Reqs, u \in Users, found \in BOOLEAN, text \in ResponseInputs :
       RespondRequest(r, u, found, text)
  \/ \E r \in Reqs : RespondSave(r)
  \/ \E r \in Reqs : RespondSaveFails(r)
  \/ \E r \in Reqs : RespondPopulateFails(r)

SpecIce == InitIce /\ [][NextIce]_vars

\* icebreakers, active or not: the schema's isActive flag (default true,
\* the filter of GET /:eventId) as the stored document carries it
InitIceActive ==
  /\ InitRequests
  /\ qa = NewQuestion
  /\ poll = NewPoll(FALSE, NoExpiry)
  /\ liveEvent = StartedLiveEvent
  /\ \E isActive \in BOOLEAN : ice = [NewIcebreaker EXCEPT !.isActive = isActive]

SpecIceActive == InitIceActive /\ [][NextIce]_vars

\* rooms: the event's room, its LiveEvent started or not yet
InitRoom ==
  /\ InitRequests
  /\ qa = NewQuestion
  /\ ice = NewIcebreaker
  /\ poll = NewPoll(FALSE, NoExpiry)
  /\ liveEvent \in {NoLiveEvent, StartedLiveEvent}

NextRoom ==
  \/ \E h \in Handlers, c \in Conns, hasEventId \in BOOLEAN : JoinEvent(h, c, hasEventId)
  \/ \E h \in Handlers : JoinAnalyticsSaved(h)
  \/ \E h \in Handlers : JoinFound(h)
  \/ \E h \in Handlers : JoinSaved(h)
  \/ \E h \in Handlers : JoinFails(h)
  \/ \E h \in Handlers, c \in Conns : LeaveEvent(h, c)
  \/ \E h \in Handlers, c \in Conns : Disconnect(h, c)
  \/ \E h \in Handlers : LeaveFound(h)
  \/ \E h \in Handlers : LeaveSaved(h)
  \/ \E h \in Handlers : LeaveFails(h)

SpecRoom == InitRoom /\ [][NextRoom]_vars

\* photos: a live event, moderation required (the default) or switched off
\* by the liveSettings of its start request
InitPhoto ==
  /\ InitRequests
  /\ qa = NewQuestion
  /\ ice = NewIcebreaker
  /\ poll = NewPoll(FALSE, NoExpiry)
  /\ \E m \in BOOLEAN : liveEvent = [StartedLiveEvent EXCEPT !.moderationRequired = m]

NextPhoto ==
  \/ \E r \in Reqs, u \in Users, hasImageUrl \in BOOLEAN : ShareRequest(r, u, hasImageUrl)
  \/ \E r \in Reqs : ShareFound(r)
  \/ \E r \in Reqs : ShareSave(r)
  \/ \E r \in Reqs, u \in Users, e \in Events, id \in 1..MaxReqs :
       LikeRequest(r, u, e, id)
  \/ \E r \in Reqs : LikeSave(r)
  \/ \E r \in Reqs : PhotoSaveFails(r)

SpecPhoto == InitPhoto /\ [][NextPhoto]_vars

\* lifecycle: the event's LiveEvent not yet created, or started
InitLife ==
  /\ InitRequests
  /\ qa = NewQuestion
  /\ ice = NewIcebreaker
  /\ poll = NewPoll(FALSE, NoExpiry)
  /\ liveEvent \in {NoLiveEvent, StartedLiveEvent}

NextLife ==
  \/ \E r \in Handlers, u \in Users, settings \in LiveSettingsInputs :
       StartRequest(r, u, settings)
  \/ \E r \in Handlers : StartFound(r)
  \/ \E r \in Handlers : StartSave(r)
  \/ \E r \in Handlers, u \in Users : EndRequest(r, u)
  \/ \E r \in Handlers : EndFound(r)
  \/ \E r \in Handlers : EndMetrics(r)
  \/ \E r \in Handlers : EndSave(r)
  \/ \E r \in Handlers : EndSaved(r)
  \/ \E r \in Handlers : LifeFails(r)

SpecLife == InitLife /\ [][NextLife]_vars

\* interactions around the end of the event: a live event with its poll,
\* end requests and vote requests
InitEnded == InitRequests /\ InitEntities

NextEnded ==
  \/ \E r \in Handlers, u \in Users : EndRequest(r, u)
  \/ \E r \in Handlers : EndFound(r)
  \/ \E r \in Handlers : EndMetrics(r)
  \/ \E r \in Handlers : EndSave(r)
  \/ \E r \in Handlers : EndSaved(r)
  \/ \E r \in Handlers : LifeFails(r)
  \/ \E r \in VoteReqs, u \in Users, idx \in IdxInputs : VoteRequest(r, u, TRUE, idx)
  \/ \E r \in VoteReqs : VoteSave(r)
  \/ \E r \in VoteReqs : VoteSaveFails(r)

SpecEnded == InitEnded /\ [][NextEnded]_vars

\* metrics: the event's room and LiveEvent under start requests, join_event,
\* leave_event, disconnect and the metrics tick
InitMetrics == InitRoom

NextMetrics ==
  \/ NextRoom
  \/ \E r \in Handlers, u \in Users, settings \in LiveSettingsInputs :
       StartRequest(r, u, settings)
  \/ \E r \in Handlers : StartFound(r)
  \/ \E r \in Handlers : StartSave(r)
  \/ \E h \in Handlers : TickStart(h)
  \/ \E h \in Handlers : TickFound(h)
  \/ \E h \in Handlers : TickSaved(h)
  \/ \E h \in Handlers : TickFails(h)

SpecMetrics == InitMetrics /\ [][NextMetrics]_vars

\* the session registry: every connection may call join_event once, and the
\* connections that joined call leave_event once, after the last join_event
\* call was made; the handlers of these calls run on in any order.  The
\* event is not started, so the handlers have no metrics to save; the room
\* is changed by socket.join and socket.leave only, before their first
\* await.
RegistryHandlers == 1..(2 * NumConns)

\* the connections for which a handler of the kind has started
Called(kind) ==
  {jreq[h].conn : h \in {k \in DOMAIN jreq : jreq[k].kind = kind}}

InitRegistry ==
  /\ InitOthers
  /\ qa = NewQuestion
  /\ ice = NewIcebreaker
  /\ poll = NewPoll(FALSE, NoExpiry)
  /\ liveEvent = NoLiveEvent
  /\ jreq = [h \in RegistryHandlers |-> IdleHandler]

\* join_event of a connection that has not called it, before any leave_event.
\* Connections differ in nothing but their name, so they are taken to call
\* in the order of their names.
RegistryJoin(h, c) ==
  /\ Called("join") = 1..(c - 1) /\ Called("leave") = {}
  /\ JoinEvent(h, c, TRUE)

\* leave_event of a connection that called join_event and has not left
RegistryLeave(h, c) ==
  /\ c \in Called("join") /\ c \notin Called("leave")
  /\ LeaveEvent(h, c)

NextRegistry ==
  \/ \E h \in RegistryHandlers, c \in Conns : RegistryJoin(h, c)
  \/ \E h \in RegistryHandlers, c \in Conns : RegistryLeave(h, c)
  \/ \E h \in RegistryHandlers : JoinAnalyticsSaved(h)
  \/ \E h \in RegistryHandlers : JoinFound(h)
  \/ \E h \in RegistryHandlers : JoinFails(h)
  \/ \E h \in RegistryHandlers : LeaveFound(h)

SpecRegistry == InitRegistry /\ [][NextRegistry]_vars

\* two rooms: the live event's room and the room of a second event, with
\* one handler for a join of each room and one handler more
TwoRoomHandlers == 1..(MaxHandlers + 1)

InitTwoRooms ==
  /\ InitOthers
  /\ InitEntities
  /\ jreq = [h \in TwoRoomHandlers |-> IdleHandler]

NextTwoRooms ==
  \/ \E h \in TwoRoomHandlers, c \in Conns : JoinEvent(h, c, TRUE)
  \/ \E h \in TwoRoomHandlers : JoinAnalyticsSaved(h)
  \/ \E h \in TwoRoomHandlers : JoinFound(h)
  \/ \E h \in TwoRoomHandlers : JoinSaved(h)
  \/ \E h \in TwoRoomHandlers, c \in Conns : JoinOtherEvent(h, c)
  \/ \E h \in TwoRoomHandlers : JoinOtherAnalyticsSaved(h)
  \/ \E h \in TwoRoomHandlers : JoinOtherFound(h)
  \/ \E h \in TwoRoomHandlers, c \in Conns : LeaveEvent(h, c)
  \/ \E h \in TwoRoomHandlers, c \in Conns : Disconnect(h, c)
  \/ \E h \in TwoRoomHandlers : LeaveFound(h)
  \/ \E h \in TwoRoomHandlers : LeaveSaved(h)
  \/ \E h \in TwoRoomHandlers : DisconnectOtherFound(h)
  \/ \E h \in TwoRoomHandlers : OtherFails(h)

SpecTwoRooms == InitTwoRooms /\ [][NextTwoRooms]_vars

\* Q&A answers: the question of the live event, answer requests that name
\* either event in their URL
InitAnswer == InitRequests /\ InitEntities

NextAnswer ==
  \/ \E r \in Reqs, u \in Users, e \in Events, found \in BOOLEAN, text \in ResponseInputs :
       AnswerRequest(r, u, e, found, text)
  \/ \E r \in Reqs : AnswerSave(r)
  \/ \E r \in Reqs : AnswerSaveFails(r)

SpecAnswer == InitAnswer /\ [][NextAnswer]_vars

\* the metrics tick over two live events: both events were started after
\* some connections had joined their rooms, so both LiveEvents are live with
\* the metrics at their defaults; then the tick fires
InitTickRooms ==
  /\ InitQuiet
  /\ InitEntities
  /\ room \in SUBSET Conns
  /\ otherRoom \in SUBSET Conns
  /\ liveEventOther = StartedLiveEvent
  /\ jreq = [h \in Handlers |-> IdleHandler]

NextTickRooms ==
  \/ \E h \in Handlers : TickRoomsStart(h)
  \/ \E h \in Handlers, order \in FindOrders : TickRoomsFound(h, order)
  \/ \E h \in Handlers : TickRoomsCount(h)
  \/ \E h \in Handlers : TickRoomsSaved(h)
  \/ \E h \in Handlers : TickRoomsFails(h)

SpecTickRooms == InitTickRooms /\ [][NextTickRooms]_vars

\* the metrics tick between interactions: votes, track_engagement calls and
\* ticks on a live event with the store available, where no interaction
\* starts while a tick runs and no tick starts while an interaction runs
NoTickInFlight == \A h \in DOMAIN jreq : jreq[h].kind = "tick" => jreq[h].pc = "done"

NoInteractionInFlight ==
  /\ \A r \in VoteReqs : vreq[r].pc # "save"
  /\ \A h \in DOMAIN jreq : jreq[h].kind = "track" => jreq[h].pc = "done"

InitTickInteractions == InitRequests /\ InitEntities

NextTickInteractions ==
  \/ \E r \in VoteReqs, u \in Users, idx \in IdxInputs :
       NoTickInFlight /\ VoteRequest(r, u, TRUE, idx)
  \/ \E r \in VoteReqs : VoteSave(r)
  \/ \E h \in Handlers, c \in Conns, hasFields \in BOOLEAN :
       NoTickInFlight /\ TrackEngagement(h, c, hasFields)
  \/ \E h \in Handlers : TrackAnalyticsSaved(h)
  \/ \E h \in Handlers : TrackFound(h)
  \/ \E h \in Handlers : TrackSaved(h)
  \/ \E h \in Handlers, c \in Conns : NoTickInFlight /\ JoinEvent(h, c, TRUE)
  \/ \E h \in Handlers : JoinAnalyticsSaved(h)
  \/ \E h \in Handlers : JoinFound(h)
  \/ \E h \in Handlers : JoinSaved(h)
  \/ \E h \in Handlers : NoInteractionInFlight /\ TickStart(h)
  \/ \E h \in Handlers : TickFound(h)
  \/ \E h \in Handlers : TickSaved(h)

SpecTickInteractions == InitTickInteractions /\ [][NextTickInteractions]_vars

\* drift and its correction: a live event whose stored activeUsers is any
\* count left behind by earlier handlers, join_event, leave_event and
\* disconnect handlers that may fail, and the metrics tick, which fires
\* again and again and whose awaits on the store resolve.  One handler is
\* the tick's; the others are finitely many, so the room's membership comes
\* to rest.
MemberHandlers == 1..(MaxHandlers - 1)

InitDrift ==
  /\ InitRequests
  /\ qa = NewQuestion
  /\ ice = NewIcebreaker
  /\ poll = NewPoll(FALSE, NoExpiry)
  /\ \E n \in 0..NumConns :
       liveEvent = [StartedLiveEvent EXCEPT !.activeUsers = n, !.peakAttendance = n]

\* the first call of the callback
DriftTickStart(h) ==
  /\ \A k \in DOMAIN jreq : jreq[k].kind # "tick"
  /\ TickStart(h)

\* the steps of the metrics tick
DriftTick ==
  \/ \E h \in Handlers : DriftTickStart(h)
  \/ \E h \in Handlers : TickAgain(h)
  \/ \E h \in Handlers : TickFound(h)
  \/ \E h \in Handlers : TickSaved(h)

NextDrift ==
  \/ \E h \in MemberHandlers, c \in Conns : JoinEvent(h, c, TRUE)
  \/ \E h \in MemberHandlers : JoinAnalyticsSaved(h)
  \/ \E h \in MemberHandlers : JoinFound(h)
  \/ \E h \in MemberHandlers : JoinSaved(h)
  \/ \E h \in MemberHandlers : JoinFails(h)
  \/ \E h \in MemberHandlers, c \in Conns : LeaveEvent(h, c)
  \/ \E h \in MemberHandlers, c \in Conns : Disconnect(h, c)
  \/ \E h \in MemberHandlers : LeaveFound(h)
  \/ \E h \in MemberHandlers : LeaveSaved(h)
  \/ \E h \in MemberHandlers : LeaveFails(h)
  \/ DriftTick

SpecDrift == InitDrift /\ [][NextDrift]_vars /\ WF_vars(DriftTick)

\* rejections: the requests of every route and join_event, on an event that
\* is live or not yet started.  A request is refused or let through on the
\* documents as it finds them, in one step; so the requests of a run come
\* one after the other, with the store available, and, the routes sharing
\* no document they write, from one group of routes.
Engaged ==
  (IF \E r \in VoteReqs : vreq[r].pc # "idle" THEN {"polls"} ELSE {})
  \cup (IF \E r \in Reqs : ureq[r].pc # "idle" THEN {"upvotes"} ELSE {})
  \cup (IF \E r \in Reqs : ireq[r].pc # "idle" THEN {"icebreakers"} ELSE {})
  \cup (IF \E r \in Reqs : preq[r].pc # "idle" THEN {"photos"} ELSE {})
  \cup (IF \E r \in Handlers : lreq[r].pc # "idle" THEN {"lifecycle"} ELSE {})
  \cup (IF \E r \in Reqs : areq[r].pc # "idle" THEN {"answers"} ELSE {})
  \cup (IF \E h \in Handlers : jreq[h].pc # "idle" THEN {"rooms"} ELSE {})

Only(group) == Engaged \subseteq {group}

\* the requests and handlers that have started and not finished
InFlight ==
  Cardinality({r \in VoteReqs : vreq[r].pc \notin {"idle", "done"}})
  + Cardinality({r \in Reqs : ureq[r].pc \notin {"idle", "done"}})
  + Cardinality({r \in Reqs : ireq[r].pc \notin {"idle", "done"}})
  + Cardinality({r \in Reqs : preq[r].pc \notin {"idle", "done"}})
  + Cardinality({r \in Handlers : lreq[r].pc \notin {"idle", "done"}})
  + Cardinality({r \in Reqs : areq[r].pc \notin {"idle", "done"}})
  + Cardinality({h \in Handlers : jreq[h].pc \notin {"idle", "done"}})

OneAtATime == InFlight <= 1

InitRejected ==
  /\ InitRequests
  /\ qa = NewQuestion
  /\ ice = NewIcebreaker
  /\ liveEvent \in {NoLiveEvent, StartedLiveEvent}
  /\ \/ \E allowMultiple \in BOOLEAN : poll = NewPoll(allowMultiple, NoExpiry)
     \/ poll = NewPoll(FALSE, now)

NextRejected ==
  \/ /\ Only("polls")
     /\ \/ \E r \in VoteReqs, u \in Users, idx \in IdxInputs : VoteRequest(r, u, TRUE, idx)
        \/ \E r \in VoteReqs, u \in Users : VoteRequest(r, u, FALSE, <<1>>)
        \/ \E r \in VoteReqs : VoteSave(r)
        \/ Tick
     /\ OneAtATime'
  \/ /\ Only("upvotes")
     /\ \/ \E r \in Handlers, u \in Users, found \in BOOLEAN : UpvoteRequest(r, u, found)
        \/ \E r \in Handlers : UpvoteSave(r)
     /\ OneAtATime'
  \/ /\ Only("icebreakers")
     /\ \/ \E r \in Handlers, u \in Users, found \in BOOLEAN, text \in ResponseInputs :
             RespondRequest(r, u, found, text)
        \/ \E r \in Handlers : RespondSave(r)
     /\ OneAtATime'
  \/ /\ Only("photos")
     /\ \/ \E r \in Handlers, u \in Users, hasImageUrl \in BOOLEAN :
             ShareRequest(r, u, hasImageUrl)
        \/ \E r \in Handlers : ShareFound(r)
        \/ \E r \in Handlers : ShareSave(r)
        \/ \E r \in Handlers, u \in Users, e \in Events, id \in 1..MaxReqs :
             LikeRequest(r, u, e, id)
        \/ \E r \in Handlers : LikeSave(r)
     /\ OneAtATime'
  \/ /\ Only("lifecycle")
     /\ \/ \E r \in Handlers, u \in Users, settings \in LiveSettingsInputs :
             StartRequest(r, u, settings)
        \/ \E r \in Handlers : StartFound(r)
        \/ \E r \in Handlers : StartSave(r)
        \/ \E r \in Handlers, u \in Users : EndRequest(r, u)
        \/ \E r \in Handlers : EndFound(r)
        \/ \E r \in Handlers : EndMetrics(r)
        \/ \E r \in Handlers : EndSave(r)
        \/ \E r \in Handlers : EndSaved(r)
     /\ OneAtATime'
  \/ /\ Only("answers")
     /\ \/ \E r \in Handlers, u \in Users, e \in Events, found \in BOOLEAN,
               text \in ResponseInputs : AnswerRequest(r, u, e, found, text)
        \/ \E r \in Handlers : AnswerSave(r)
     /\ OneAtATime'
  \/ /\ Only("rooms")
     /\ \/ \E h \in Handlers, c \in Conns, hasEventId \in BOOLEAN :
             JoinEvent(h, c, hasEventId)
        \/ \E h \in Handlers : JoinAnalyticsSaved(h)
        \/ \E h \in Handlers : JoinFound(h)
        \/ \E h \in Handlers : JoinSaved(h)
     /\ OneAtATime'

SpecRejected == InitRejected /\ [][NextRejected]_vars

\* the end of the event among the handlers that write its metrics: a live
\* event, end requests, join_event, disconnect, track_engagement and the
\* metrics tick
InitFinal == InitRequests /\ InitEntities

NextFinal ==
  \/ \E r \in Handlers, u \in Users : EndRequest(r, u)
  \/ \E r \in Handlers : EndFound(r)
  \/ \E r \in Handlers : EndMetrics(r)
  \/ \E r \in Handlers : EndSave(r)
  \/ \E r \in Handlers : EndSaved(r)
  \/ \E h \in Handlers, c \in Conns : JoinEvent(h, c, TRUE)
  \/ \E h \in Handlers : JoinAnalyticsSaved(h)
  \/ \E h \in Handlers : JoinFound(h)
  \/ \E h \in Handlers : JoinSaved(h)
  \/ \E h \in Handlers, c \in Conns : Disconnect(h, c)
  \/ \E h \in Handlers : LeaveFound(h)
  \/ \E h \in Handlers : LeaveSaved(h)
  \/ \E h \in Handlers, c \in Conns : TrackEngagement(h, c, TRUE)
  \/ \E h \in Handlers : TrackAnalyticsSaved(h)
  \/ \E h \in Handlers : TrackFound(h)
  \/ \E h \in Handlers : TrackSaved(h)
  \/ \E h \in Handlers : TickStart(h)
  \/ \E h \in Handlers : TickFound(h)
  \/ \E h \in Handlers : TickSaved(h)

SpecFinal == InitFinal /\ [][NextFinal]_vars

\* Q&A status: the question of the live event under upvote requests and
\* answer requests that overlap, as many of each as there are handlers.
\* The answer requests are those the ownership check lets through: each
\* names an event in its URL and comes from that event's organizer.
InitQAStatus == InitRequests /\ InitEntities

NextQAStatus ==
  \/ \E r \in Handlers, e \in Events : AnswerRequest(r, organizer(e), e, TRUE, "hi")
  \/ \E r \in Handlers : AnswerSave(r)
  \/ \E r \in Handlers, u \in Users : UpvoteRequest(r, u, TRUE)
  \/ \E r \in Handlers : UpvoteSave(r)

SpecQAStatus == InitQAStatus /\ [][NextQAStatus]_vars

\* delivery: every socket is in the event's room, as its join_event left it,
\* and stays; votes and further join_event calls of the members broadcast
\* to the room while the clients receive
InitOrder ==
  /\ InitSilent
  /\ room = Conns
  /\ eventIdSet = Conns
  /\ otherRoom = {}
  /\ liveEventOther = NoLiveEvent
  /\ jreq = [h \in Handlers |-> IdleHandler]
  /\ qa = NewQuestion
  /\ ice = NewIcebreaker
  /\ poll = NewPoll(FALSE, NoExpiry)
  /\ liveEvent = [StartedLiveEvent EXCEPT !.activeUsers = NumConns,
                                          !.peakAttendance = NumConns]

NextOrder ==
  \/ \E u \in Users : VoteRequest(1, u, TRUE, <<1>>)
  \/ VoteSave(1)
  \/ \E h \in Handlers, c \in Conns : JoinEvent(h, c, TRUE)
  \/ \E h \in Handlers : JoinAnalyticsSaved(h)
  \/ \E h \in Handlers : JoinFound(h)
  \/ \E h \in Handlers : JoinSaved(h)
  \/ \E c \in Conns : Receive(c)

SpecOrder == InitOrder /\ [][NextOrder]_vars

\* entities created around the end of the event: ask and chat requests, a
\* share request and an end request, the LiveEvent not yet created or live
InitLate == InitLife

NextLate ==
  \/ \E r \in Handlers, kind \in PostKinds, text \in ResponseInputs :
       PostRequest(r, 1, kind, text)
  \/ \E r \in Handlers : PostFound(r)
  \/ \E r \in Handlers : PostSave(r)
  \/ \E r \in Handlers : PostSaveFails(r)
  \/ \E hasImageUrl \in BOOLEAN : ShareRequest(1, 1, hasImageUrl)
  \/ ShareFound(1)
  \/ ShareSave(1)
  \/ \E u \in Users : EndRequest(1, u)
  \/ EndFound(1)
  \/ EndMetrics(1)
  \/ EndSave(1)
  \/ EndSaved(1)

SpecLate == InitLate /\ [][NextLate]_vars

\* the tick's decision: sockets joined the room before the event was
\* started, so the live event's metrics are at their defaults; join_event,
\* leave_event and the tick follow, the store being available
InitTickPeak ==
  /\ InitSilent
  /\ room \in SUBSET Conns
  /\ eventIdSet = room
  /\ otherRoom = {}
  /\ liveEventOther = NoLiveEvent
  /\ jreq = [h \in Handlers |-> IdleHandler]
  /\ InitEntities

NextTickPeak ==
  \/ \E h \in Handlers, c \in Conns : JoinEvent(h, c, TRUE)
  \/ \E h \in Handlers : JoinAnalyticsSaved(h)
  \/ \E h \in Handlers : JoinFound(h)
  \/ \E h \in Handlers : JoinSaved(h)
  \/ \E h \in Handlers, c \in Conns : LeaveEvent(h, c)
  \/ \E h \in Handlers : LeaveFound(h)
  \/ \E h \in Handlers : LeaveSaved(h)
  \/ \E h \in Handlers : TickStart(h)
  \/ \E h \in Handlers : TickFound(h)
  \/ \E h \in Handlers : TickSaved(h)

SpecTickPeak == InitTickPeak /\ [][NextTickPeak]_vars

\* typing indicators: sockets join the rooms of the two events, leave the
\* first one's, and send typing_start and typing_stop
InitTyping == InitRequests /\ InitEntities

NextTyping ==
  \/ \E h \in Handlers, c \in Conns : JoinEvent(h, c, TRUE)
  \/ \E h \in Handlers : JoinAnalyticsSaved(h)
  \/ \E h \in Handlers : JoinFound(h)
  \/ \E h \in Handlers : JoinSaved(h)
  \/ \E h \in Handlers, c \in Conns : JoinOtherEvent(h, c)
  \/ \E h \in Handlers : JoinOtherAnalyticsSaved(h)
  \/ \E h \in Handlers : JoinOtherFound(h)
  \/ \E h \in Handlers, c \in Conns : LeaveEvent(h, c)
  \/ \E h \in Handlers : LeaveFound(h)
  \/ \E h \in Handlers : LeaveSaved(h)
  \/ \E c \in Conns, e \in Events \cup {NoEventId}, isTyping \in BOOLEAN :
       Typing(c, e, isTyping)

SpecTyping == InitTyping /\ [][NextTyping]_vars

\* ================================================================ claims
RECURSIVE SumVoteCounts(_)
SumVoteCounts(options) ==
  IF options = <<>> THEN 0 ELSE Head(options).voteCount + SumVoteCounts(Tail(options))

RECURSIVE SumVoteRecords(_)
SumVoteRecords(options) ==
  IF options = <<>> THEN 0 ELSE Len(Head(options).votes) + SumVoteRecords(Tail(options))

\* the options of poll p whose votes list holds a record of user u
OptionsOf(p, u) == {i \in DOMAIN p.options : u \in Range(p.options[i].votes)}

\* C1: in every reachable state of the poll, under any interleaving of vote
\* requests, the options' voteCounts add up to the poll's totalVotes.
C1_CountsSumToTotal == SumVoteCounts(poll.options) = poll.totalVotes

\* C1's case: votes of two accepted requests, spread over two options
C1_Witness ==
  /\ poll.totalVotes >= 3
  /\ \E i, j \in DOMAIN poll.options : i # j /\ poll.options[i].voteCount >= 1
                                         /\ poll.options[j].voteCount >= 2
  /\ \A r \in VoteReqs : vreq[r].result = "200 vote recorded"

\* C2: on a poll with allowMultiple = false a voter is in at most one
\* option's votes, and on every poll a voter is at most once in one option's
\* votes, whatever optionIndexes the accepted requests carried.
C2_OneVotePerVoter ==
  \A u \in Users :
    /\ ~poll.allowMultiple => Cardinality(OptionsOf(poll, u)) <= 1
    /\ \A i \in DOMAIN poll.options : CountIn(poll.options[i].votes, u) <= 1

\* C3: on a poll with allowMultiple = false, a vote request of a user who has
\* a vote recorded in some option is answered at once and changes neither
\* the poll nor the broadcasts; unless the request was already refused as
\* malformed, for an unknown poll or for a closed poll, the answer is the
\* AlreadyVoted conflict.
C3_SecondVoteRejected ==
  [][\A r \in VoteReqs :
       (/\ vreq[r].pc = "idle" /\ vreq'[r].pc # "idle"
        /\ ~poll.allowMultiple
        /\ OptionsOf(poll, vreq'[r].user) # {})
       => /\ vreq'[r].pc = "done"
          /\ vreq'[r].result \in {"400 already voted", "400 optionIndexes required",
                                  "404 poll not found", "400 poll not active"}
          /\ vreq'[r].result = "400 poll not active" => PollClosed(poll)
          /\ poll' = poll
          /\ bcast' = bcast]_vars

\* C3's case: a voter of a single-choice poll was refused a second vote
C3_Witness ==
  /\ ~poll.allowMultiple
  /\ \E r \in VoteReqs : /\ vreq[r].result = "400 already voted"
                         /\ OptionsOf(poll, vreq[r].user) # {}
  /\ Len(bcast) = 1

\* C4: once all vote requests have completed, however they interleaved,
\* every option's voteCount is the number of records in its votes,
\* totalVotes is the number of records in the poll, and every voter whose
\* request was answered with success has a record.
C4_NoLostVote ==
  (\A r \in VoteReqs : vreq[r].pc # "save")
  => /\ \A i \in DOMAIN poll.options :
          poll.options[i].voteCount = Len(poll.options[i].votes)
     /\ poll.totalVotes = SumVoteRecords(poll.options)
     /\ \A r \in VoteReqs : vreq[r].result = "200 vote recorded"
                            => OptionsOf(poll, vreq[r].user) # {}

\* C4's case: two users' requests overlapped (the second to save met the
\* first one's version) and both have completed
C4_Witness ==
  /\ \A r \in VoteReqs : vreq[r].pc = "done"
  /\ \E r1, r2 \in VoteReqs :
       /\ vreq[r1].user # vreq[r2].user
       /\ vreq[r1].result = "200 vote recorded"
       /\ vreq[r2].result = "500 failed: VersionError"

\* C5: a question's upvoteCount is the number of entries of its upvotes in
\* every reachable state, interleaved toggles included.
C5_UpvoteCountIsLength == qa.upvoteCount = Len(qa.upvotes)

\* one upvote request run from read to save with nothing in between
UpvoteOnce(q, u) == UpvoteApplySave(q, ToggleUpvote(q, u), u, hasUpvoted(q, u))

\* the same entries, each as many times
SameEntries(s, t) == \A u \in Users : CountIn(s, u) = CountIn(t, u)

\* C6: from any state of the question, one upvote call adds an absent user
\* and increments the count, or removes a present user and decrements it,
\* and two consecutive calls of one user leave upvotes and upvoteCount as
\* they were.
C6_ToggleLaw ==
  \A u \in Users :
    LET once == UpvoteOnce(qa, u)
        twice == UpvoteOnce(once, u)
    IN /\ IF u \in Range(qa.upvotes)
          THEN u \notin Range(once.upvotes) /\ once.upvoteCount = qa.upvoteCount - 1
          ELSE CountIn(once.upvotes, u) = 1 /\ once.upvoteCount = qa.upvoteCount + 1
       /\ SameEntries(twice.upvotes, qa.upvotes)
       /\ twice.upvoteCount = qa.upvoteCount

\* C7: a user is at most once in a question's upvotes in every reachable
\* state, also when two requests of that user overlap.
C7_UpvotesUnique == \A u \in Users : CountIn(qa.upvotes, u) <= 1

\* C8: an icebreaker's responseCount is the number of entries of its
\* responses in every reachable state, interleaved requests included.
C8_ResponseCountIsLength == ice.responseCount = Len(ice.responses)

\* the responses of icebreaker ib given by user u
ResponsesOf(ib, u) == {k \in DOMAIN ib.responses : ib.responses[k].userId = u}

\* C9: an icebreaker holds at most one response per user in every reachable
\* state, also when two requests of that user overlap.
C9_OneResponsePerUser == \A u \in Users : Cardinality(ResponsesOf(ice, u)) <= 1

\* C10: the activeUsers of a joined_event reply is the number of connections
\* in the event's room when the reply is emitted, the joining connection
\* included while it is in the room.
C10_JoinedEventCountsRoom ==
  [][\A k \in (Len(replies) + 1)..Len(replies') :
       replies'[k].type = "joined_event"
       => /\ replies'[k].activeUsers = Cardinality(room')
          /\ room' = room
          /\ replies'[k].to \in room' => replies'[k].activeUsers >= 1]_vars

\* C10's case: a joined_event reply that counts another connection, which
\* joined while the handler was waiting
C10_Witness ==
  \E k \in DOMAIN replies :
    /\ replies[k].type = "joined_event"
    /\ replies[k].activeUsers >= 2
    /\ ~\E b \in DOMAIN bcast : bcast[b].activeUsers = replies[k].activeUsers

\* C11: every room broadcast that identifies a photo (new_photo, photo_like)
\* names a photo whose status is approved when the broadcast is emitted.
C11_BroadcastOnlyApproved ==
  [][\A k \in (Len(bcast) + 1)..Len(bcast') :
       bcast'[k].type \in {"new_photo", "photo_like"}
       => photos'[bcast'[k].photoId].status = "approved"]_vars

\* C12: a start request of the organizer that finds the LiveEvent not live
\* (not yet created, or stored with another status) goes on to save it, and
\* when its save is answered with success the LiveEvent it saved to is live
\* with the startedAt the request read and event_started has been broadcast to
\* the room; a start request that finds the LiveEvent live is answered with
\* the AlreadyLive conflict, and status, startedAt and broadcasts stay as
\* they were.
C12_StartOnceLive ==
  [][\A r \in Handlers :
       /\ (/\ lreq[r].kind = "start" /\ lreq[r].pc = "find"
           /\ lreq'[r].pc # "find" /\ lreq'[r].result # "500 failed")
          => IF liveEvent.status = "live"
             THEN /\ lreq'[r].pc = "done" /\ lreq'[r].result = "400 already live"
                  /\ liveEvent' = liveEvent /\ duplicates' = duplicates
                  /\ bcast' = bcast
             ELSE /\ lreq'[r].pc = "save" /\ IsOrganizer(lreq'[r].user, EventA)
                  /\ lreq'[r].startedAt # NoDate
       /\ (lreq[r].pc = "save" /\ lreq'[r].result = "200 started")
          => /\ bcast' = Append(bcast, [type |-> "event_started",
                                        startedAt |-> lreq[r].startedAt])
             /\ duplicates' = duplicates
                => /\ liveEvent'.status = "live"
                   /\ liveEvent'.startedAt = lreq[r].startedAt]_vars

\* C12's case: the organizer started the event, and a second start was
\* refused as already live
C12_Witness ==
  /\ liveEvent.status = "live" /\ liveEvent.startedAt # NoDate
  /\ \E r1, r2 \in Handlers : /\ lreq[r1].result = "200 started"
                              /\ lreq[r2].result = "400 already live"
  /\ Len(bcast) = 1 /\ bcast[1].type = "event_started"

\* C13: once the LiveEvent's status is ended, no step of any handler changes
\* it to another status.
C13_EndedIsTerminal ==
  [][liveEvent.status = "ended" => liveEvent'.status = "ended"]_vars

\* the broadcasts that interaction-engine calls produce
InteractionBroadcasts ==
  {"poll_vote", "qa_upvote", "qa_answered", "icebreaker_response", "new_photo",
   "photo_like"}

\* C14: while the LiveEvent's status is ended, no step changes the poll, the
\* question, the icebreaker or the photos it owns, and no step emits a
\* broadcast of an interaction to the room.
C14_EndedRejectsInteractions ==
  [][liveEvent.status = "ended"
     => /\ poll' = poll /\ qa' = qa /\ ice' = ice /\ photos' = photos
        /\ \A k \in (Len(bcast) + 1)..Len(bcast') :
             bcast'[k].type \notin InteractionBroadcasts]_vars

\* no join_event, leave_event, disconnect or metrics-tick handler is
\* part-way through
NoHandlerInFlight == \A h \in Handlers : jreq[h].pc \in {"idle", "done"}

\* C15: whenever the LiveEvent is live and no join, leave, disconnect or
\* metrics-tick handler is part-way through, the stored activeUsers is the
\* number of connections in the event's room.
C15_ActiveUsersIsRoomSize ==
  (IsLive(liveEvent) /\ NoHandlerInFlight)
  => liveEvent.activeUsers = Cardinality(room)

\* C16: while the LiveEvent is live, no step of any handler makes the stored
\* peakAttendance smaller.
C16_PeakNeverDecreases ==
  [][(liveEvent.status = "live" /\ liveEvent'.status = "live")
     => liveEvent'.peakAttendance >= liveEvent.peakAttendance]_vars

\* C17: the room holds exactly the connections that called join_event and
\* have not called leave_event since, however the handlers of the calls
\* interleave; so once the N connections that joined have all called
\* leave_event, the room has no member and is counted as 0.
C17_JoinsThenLeavesEmptyRoom ==
  /\ room = Called("join") \ Called("leave")
  /\ (Called("join") # {} /\ Called("leave") = Called("join"))
     => Cardinality(room) = 0 /\ getActiveUsersCount(room) = 0

\* C17's case: every connection joined, then every connection left, with at
\* least two of them, and all handlers have run to their end
C17_Witness ==
  /\ Called("join") = Conns /\ Called("leave") = Conns
  /\ Cardinality(Conns) >= 2
  /\ \A h \in DOMAIN jreq : jreq[h].pc = "done"
  /\ room = {}

\* C18: no connection is in the rooms of two events at once.
C18_AtMostOneRoom == room \cap otherRoom = {}

\* C19: the step in which a connection disconnects takes it out of every
\* room and changes no other connection's membership; if it was in the room
\* of the live event, the handler that starts goes on to set that event's
\* activeUsers to the number of connections left in the room, and the
\* handler's save stores that number.
C19_DisconnectUpdatesItsRooms ==
  [][/\ \A c \in connected \ connected' :
          /\ room' = room \ {c} /\ otherRoom' = otherRoom \ {c}
          /\ (c \in room /\ IsLive(liveEvent))
             => \E h \in DOMAIN jreq :
                  /\ jreq[h].pc = "idle" /\ jreq'[h].conn = c
                  /\ jreq'[h].kind = "disconnect" /\ jreq'[h].pc = "find"
                  /\ jreq'[h].activeUsers = Cardinality(room')
     /\ \A h \in DOMAIN jreq :
          (/\ jreq[h].kind = "disconnect" /\ jreq[h].pc = "save"
           /\ jreq'[h].pc = "done" /\ bcast' # bcast)
          => liveEvent'.activeUsers = jreq[h].activeUsers]_vars

\* C20: an answer request of a user who is not the organizer of the event
\* that owns the question is answered at once with an authorization error
\* (or refused as malformed or for an unknown question) and never gets to
\* save; the question's answer
\* and status change only in the save of a request of that organizer.
C20_OnlyOwnerAnswers ==
  [][/\ \A r \in Reqs :
          (/\ areq[r].pc = "idle" /\ areq'[r].pc # "idle"
           /\ ~IsOrganizer(areq'[r].user, EventA))
          => /\ areq'[r].pc = "done"
             /\ areq'[r].result \in {"403 only organizers", "400 answer required",
                                     "404 question not found"}
             /\ qa' = qa
     /\ (qa'.answer # qa.answer \/ qa'.status # qa.status)
        => \E r \in Reqs : /\ areq[r].pc = "save" /\ areq'[r].pc = "done"
                           /\ IsOrganizer(areq[r].user, EventA)]_vars

\* C21: once the question's status is answered, no step of any handler (a
\* later answer, or an upvote that read the question while it was pending)
\* makes it anything else; a later answer changes the answer only.
C21_AnsweredStaysAnswered ==
  [][qa.status = "answered"
     => /\ qa'.status = "answered"
        /\ qa'.answer # qa.answer
           => \E r \in Reqs : areq[r].pc = "save" /\ areq'[r].pc = "done"]_vars

\* C21's case: the question was answered, answered again with another text
\* or by another organizer's request, and an upvote that read it while it
\* was pending has saved since
C21_Witness ==
  /\ qa.status = "answered"
  /\ \E r1, r2 \in Reqs : /\ r1 # r2
                          /\ areq[r1].result = "200 answered"
                          /\ areq[r2].result = "200 answered"
  /\ \E k \in DOMAIN bcast : /\ k > 1 /\ bcast[k].type = "qa_upvote"
                             /\ bcast[k - 1].type = "qa_answered"
                             /\ bcast[k].upvoteCount = 1
  /\ Len(qa.upvotes) = 2

\* C22: when a metrics tick has returned after a failure at one live event,
\* every live event that came after it in the tick's list has been brought up
\* to date by that tick: its stored activeUsers is the number of connections
\* in its room.  (The rooms do not change while the tick runs.)
C22_TickGoesOnAfterFailure ==
  \A h \in DOMAIN jreq :
    (jreq[h].kind = "tickRooms" /\ jreq[h].pc = "done" /\ jreq[h].rest # <<>>)
    => \A k \in 2..Len(jreq[h].rest) :
         LiveEventOf(jreq[h].rest[k]).activeUsers
           = Cardinality(RoomOf(jreq[h].rest[k]))

\* C23: when a metrics tick on a live LiveEvent returns, no interaction
\* having run meanwhile, the stored totalInteractions is the number of chat
\* messages, plus the polls' total votes, plus the number of questions, plus
\* the number of photos of the LiveEvent.
C23_TickRecomputesInteractions ==
  [][\A h \in Handlers :
       (/\ jreq[h].kind = "tick" /\ jreq[h].pc \in {"find", "save"}
        /\ jreq'[h].pc = "done" /\ IsLive(liveEvent'))
       => liveEvent'.totalInteractions = CountInteractions']_vars

\* C24: on an event that stays live, once the room's membership has come to
\* rest the stored activeUsers eventually is the number of connections in
\* the room and stays so, whatever it was before, provided the metrics tick
\* keeps firing and its awaits on the store resolve.
C24_DriftCorrected == <>[](liveEvent.activeUsers = Cardinality(room))

\* C24's case: a join handler failed and left a connection in the room that
\* the stored count did not include, and a tick has set the count right
C24_Witness ==
  /\ room # {}
  /\ \E k \in DOMAIN replies : replies[k].type = "error"
  /\ \E k \in DOMAIN bcast : /\ bcast[k].type = "metrics_update"
                             /\ bcast[k].activeUsers = Cardinality(room)
  /\ liveEvent.activeUsers = Cardinality(room)
  /\ \A h \in DOMAIN jreq : jreq[h].pc \in {"idle", "done"}

\* the answers that reject a request: validation, conflict, authorization,
\* not found
Rejections ==
  {"400 optionIndexes required", "404 poll not found", "400 poll not active",
   "400 already voted", "400 invalid index", "404 question not found",
   "400 response required", "404 icebreaker not found", "400 already responded",
   "400 image url required", "404 live event not found", "404 photo not found",
   "404 event not found", "400 already live", "403 access denied",
   "400 answer required", "403 only organizers"}

\* some request is answered with a rejection in this step
RejectedNow ==
  \/ \E r \in VoteReqs : vreq[r].result = "none" /\ vreq'[r].result \in Rejections
  \/ \E r \in Reqs : ureq[r].result = "none" /\ ureq'[r].result \in Rejections
  \/ \E r \in Reqs : ireq[r].result = "none" /\ ireq'[r].result \in Rejections
  \/ \E r \in Reqs : preq[r].result = "none" /\ preq'[r].result \in Rejections
  \/ \E r \in Handlers : lreq[r].result = "none" /\ lreq'[r].result \in Rejections
  \/ \E r \in Reqs : areq[r].result = "none" /\ areq'[r].result \in Rejections

\* join_event without an event id is refused in this step
JoinRefusedNow ==
  \E h \in Handlers : /\ jreq[h].pc = "idle" /\ jreq'[h].pc = "done"
                       /\ jreq'[h].kind = "join"

\* C25: a step that answers a request with a validation, conflict,
\* authorization or not-found error changes no stored document and no room
\* and emits no broadcast; a refused join_event sends its error to the
\* calling connection alone.
C25_RejectionChangesNothing ==
  [][(RejectedNow \/ JoinRefusedNow)
     => /\ <<poll, qa, ice, photos, liveEvent, duplicates, liveEventOther>>'
           = <<poll, qa, ice, photos, liveEvent, duplicates, liveEventOther>>
        /\ <<room, otherRoom, eventIdSet>>' = <<room, otherRoom, eventIdSet>>
        /\ bcast' = bcast
        /\ JoinRefusedNow
           => \E h \in Handlers :
                replies' = Append(replies, Reply(jreq'[h].conn, "error", 0))]_vars

\* C25's case: requests were rejected for a second vote, for an index out
\* of range and for a closed poll, after a vote had been recorded
C25_Witness ==
  /\ poll.totalVotes >= 1
  /\ \E r \in VoteReqs : vreq[r].result \in {"400 already voted", "400 invalid index",
                                              "400 poll not active"}
  /\ Len(bcast) = 1

\* C26: an end request of the organizer that finds the LiveEvent already
\* ended is answered at once with a conflict; the LiveEvent and the broadcasts
\* stay as they were.
C26_EndOnEndedIsConflict ==
  [][\A r \in Handlers :
       (/\ lreq[r].kind = "end" /\ lreq[r].pc = "find"
        /\ lreq'[r].pc # "find" /\ lreq'[r].result # "500 failed"
        /\ liveEvent.status = "ended" /\ IsOrganizer(lreq[r].user, EventA))
       => /\ lreq'[r].pc = "done"
          /\ lreq'[r].result \notin {"none", "200 ended"}
          /\ liveEvent' = liveEvent
          /\ bcast' = bcast]_vars

\* C27: whether the analytics write of a join_event handler succeeds or
\* fails, the handler goes on to read the LiveEvent and complete the join; the
\* step that settles the analytics write sends no error to the caller and
\* does not end the handler.
C27_AnalyticsFailureDoesNotFailJoin ==
  [][\A h \in Handlers :
       (jreq[h].kind = "join" /\ jreq[h].pc = "analytics" /\ jreq'[h].pc # "analytics")
       => /\ jreq'[h].pc = "find"
          /\ replies' = replies]_vars

\* the metrics of a LiveEvent document
Metrics(le) == <<le.activeUsers, le.peakAttendance, le.totalInteractions>>

\* C28: the save of an end request stores the number of chat messages, poll
\* votes, questions and photos as totalInteractions, and while the stored
\* status is ended no step of a join_event, leave_event, disconnect,
\* track_engagement or metrics-tick handler changes a field of the metrics.
C28_EndedMetricsAreFinal ==
  [][/\ \A r \in Handlers :
          (lreq[r].kind = "end" /\ lreq[r].pc = "save" /\ lreq'[r].pc = "saved")
          => liveEvent'.totalInteractions = lreq[r].totalInteractions
     /\ (liveEvent.status = "ended" /\ lreq' = lreq)
        => Metrics(liveEvent') = Metrics(liveEvent)]_vars

\* C29: the collection holds at most one LiveEvent document for the event in
\* every reachable state, overlapping start requests included.
C29_OneLiveEventPerEvent == duplicates = 0

\* C30: a broadcast produced by a change of a photo, which the LiveEvent of
\* event A owns, is emitted to the room of event A and to no other, whatever
\* event the request names in its URL.
C30_BroadcastToOwningRoom ==
  [][\A k \in (Len(bcast) + 1)..Len(bcast') :
       bcast'[k].type = "photo_like" => bcast'[k].room = EventA]_vars

\* C31: on a poll with allowMultiple = true, a vote request of a user who
\* has a vote in one option, sent for options in which that user has no
\* vote, is not answered with the AlreadyVoted conflict: it is accepted.
C31_LaterVoteAccepted ==
  [][\A r \in VoteReqs, u \in Users, idx \in IdxInputs :
       (/\ VoteRequest(r, u, TRUE, idx)
        /\ poll.allowMultiple /\ ~PollClosed(poll)
        /\ idx # <<>> /\ ~InvalidIndex(poll, idx)
        /\ OptionsOf(poll, u) # {}
        /\ Range(idx) \cap OptionsOf(poll, u) = {})
       => vreq'[r].pc = "save"]_vars

C34_CreatedOnlyWhileLive ==
  [][(\/ Len(questions') > Len(questions)
      \/ Len(photos') > Len(photos)
      \/ Len(chats') > Len(chats))
     => IsLive(liveEvent)]_vars

\* C35: an accepted photo share creates the photo with status pending if
\* the LiveEvent's moderationRequired setting is true and approved
\* otherwise, and the step that creates it emits new_photo for it if and only
\* if that status is approved.
C35_ShareStatusAndBroadcast ==
  [][Len(photos') > Len(photos) =>
       LET id == Len(photos')
           emitted == {k \in (Len(bcast) + 1)..Len(bcast') : bcast'[k].type = "new_photo"}
       IN /\ id = Len(photos) + 1
          /\ photos'[id].status = (IF liveEvent.moderationRequired THEN "pending"
                                   ELSE "approved")
          /\ emitted # {} <=> photos'[id].status = "approved"
          /\ \A k \in emitted : bcast'[k].photoId = id]_vars

\* C35's case: one share was held back for moderation and no new_photo was
\* emitted, or two shares were approved and each was announced
C35_Witness ==
  \/ /\ Len(photos) = 1 /\ photos[1].status = "pending" /\ liveEvent.moderationRequired
     /\ ~\E k \in DOMAIN bcast : bcast[k].type = "new_photo"
  \/ /\ Len(photos) = 2 /\ ~liveEvent.moderationRequired
     /\ \A id \in 1..2 : /\ photos[id].status = "approved"
                         /\ \E k \in DOMAIN bcast :
                              bcast[k].type = "new_photo" /\ bcast[k].photoId = id

\* C36: a tick that has read a live LiveEvent and counted its room sets
\* peakAttendance to the larger of the peak it read and the count, and goes
\* on to save and to broadcast metrics_update if and only if the count or
\* the peak differs from what it read; a tick that changes nothing ends
\* without a broadcast.
C36_TickSavesIffChanged ==
  [][\A h \in Handlers :
       (/\ jreq[h].kind = "tick" /\ jreq[h].pc = "find" /\ jreq'[h].pc # "find"
        /\ IsLive(jreq[h].found))
       => LET le == jreq[h].found
              activeUsers == Cardinality(room)
              peak == IF activeUsers > le.peakAttendance
                      THEN activeUsers ELSE le.peakAttendance
              changed == activeUsers # le.activeUsers \/ peak # le.peakAttendance
          IN /\ jreq'[h].pc = "save" <=> changed
             /\ jreq'[h].pc = "save" => /\ jreq'[h].activeUsers = activeUsers
                                        /\ jreq'[h].peakAttendance = peak
             /\ bcast' = bcast]_vars

\* C37: every photo's likeCount is the number of entries of its likes in
\* every reachable state, after interleaved like toggles of different users
\* on the same photo too.
C37_LikeCountIsLength ==
  \A id \in DOMAIN photos : photos[id].likeCount = Len(photos[id].likes)

\* C38: in every poll_vote broadcast each option's percentage is its
\* voteCount / totalVotes * 100 rounded to the nearest integer (no integer
\* is nearer), it is 0 for every option when totalVotes is 0, and it lies
\* between 0 and 100.
C38_PercentagesRounded ==
  \A k \in DOMAIN bcast :
    bcast[k].type = "poll_vote" =>
      \A i \in DOMAIN bcast[k].options :
        LET o == bcast[k].options[i]
            total == bcast[k].totalVotes
            diff == 100 * o.voteCount - o.percentage * total
        IN /\ o.percentage \in 0..100
           /\ total = 0 => o.percentage = 0
           /\ total > 0 => /\ 2 * diff <= total
                           /\ 2 * (0 - diff) <= total

\* C38's case: a broadcast whose percentages had to be rounded, one up and
\* one down
C38_Witness ==
  \E k \in DOMAIN bcast :
    /\ bcast[k].type = "poll_vote"
    /\ \E i, j \in DOMAIN bcast[k].options :
         /\ bcast[k].options[i].percentage * bcast[k].totalVotes
              > 100 * bcast[k].options[i].voteCount
         /\ bcast[k].options[j].percentage * bcast[k].totalVotes
              < 100 * bcast[k].options[j].voteCount

\* C39: a user_typing broadcast goes to a room only while the socket that
\* sent typing_start or typing_stop is in that room (not after its
\* leave_event, nor for a room it named before it joined another), and the
\* step that emits it changes no stored document and no metric.
C39_TypingOnlyFromMembers ==
  [][\A k \in (Len(bcast) + 1)..Len(bcast') :
       bcast'[k].type = "user_typing"
       => /\ bcast'[k].from \in RoomOf(bcast'[k].room)
          /\ poll' = poll /\ qa' = qa /\ ice' = ice /\ photos' = photos
          /\ questions' = questions /\ chats' = chats
          /\ liveEvent' = liveEvent /\ liveEventOther' = liveEventOther]_vars

\* C40: join_event is all-or-nothing for the room: when the step that ends a
\* join handler sends the caller the error of a failed join, the caller's
\* socket is not in the room afterwards, so no later count of the room
\* includes it.
C40_FailedJoinLeavesNoMember ==
  [][\A h \in Handlers :
       (/\ jreq[h].kind = "join" /\ jreq[h].pc \in {"analytics", "find", "save"}
        /\ jreq'[h].pc = "done"
        /\ Len(replies') = Len(replies) + 1
        /\ replies'[Len(replies')] = Reply(jreq[h].conn, "error", 0))
       => jreq[h].conn \notin room']_vars

====
